---- MODULE Spec2Model ----
(***************************************************************************)
(* Model of the seismic conversion-and-validation engine:                  *)
(*   - SeismicConverter.convert and the stages it dispatches to            *)
(*     (src/src/lib/seismicConverter.ts, the Azure-aware class, lines      *)
(*     48-858);                                                            *)
(*   - OVDSValidator.validateOVDS and its seven steps                      *)
(*     (src/src/lib/ovdsValidator.ts).                                     *)
(* Byte buffers are represented by what the code observes of them: their   *)
(* byte length, and for the validator the outcome of each text search,     *)
(* JSON field read and DataView read the code performs.                    *)
(***************************************************************************)
EXTENDS Integers, Sequences, FiniteSets, TLC

VARIABLES
    pc,          \* position of the running convert() call
    file,        \* the File handed to convert()
    config,      \* the ConversionConfig handed to convert()
    callback,    \* the progressCallback handed to convert()
    progressLog, \* values passed to progressCallback so far, in order
    stagesRun,   \* pipeline operations executed so far, in order
    outcome,     \* "pending" | "returned" | "rejected": how the promise settled
    result,      \* the ConversionResult the promise resolved to
    failOrigin,  \* where the error of a failed conversion was raised
    azureValidation, \* convert()'s local: the gate's report, if the gate ran
    metadata,    \* convert()'s local: the extracted SeismicMetadata
    vin,         \* the ArrayBuffer (and originalFileSize) handed to validateOVDS
    vcalls,      \* settled validateOVDS calls on that buffer, in order
    lod,         \* a createLODStructure call: its arguments and what it built
    comp,        \* applyOVDSCompression calls on one buffer, in order
    storage,     \* a StorageManager.saveConvertedData call and what it returned
    app          \* the state of the App component (its hooks) and its clock

vars == <<pc, file, config, callback, progressLog, stagesRun, outcome, result,
          failOrigin, azureValidation, metadata, vin, vcalls, lod, comp,
          storage, app>>

convVars == <<pc, file, config, callback, progressLog, stagesRun, outcome,
              result, failOrigin, azureValidation, metadata>>

valVars == <<vin, vcalls>>

encVars == <<lod, comp>>

----------------------------------------------------------------------------
(* Bounds of the model.                                                    *)

\* file sizes explored are four base lengths + 0..MaxExtraBytes
MaxExtraBytes == 4

\* LOD levels a validated header may declare, and entries of the LOD table
MaxLodLevels == 2

\* a validated buffer differs from the reference buffer in at most this
\* many fields
MaxDeviations == 2

\* validateOVDS calls made on one buffer, and applyOVDSCompression calls
\* made on one buffer
MaxCalls == 2

\* samples of the Float32Array handed to createLODStructure
MaxSamples == 5

\* levels createLODStructure is asked for
MaxPyramidLevels == 4

\* buffers handed to applyOVDSCompression have up to this many blocks of
\* 200 bytes
MaxInputBlocks == 8

\* conversions started in one session of the App
MaxConversions == 12

----------------------------------------------------------------------------
(* Small helpers.                                                          *)

Range(s) == {s[i] : i \in 1..Len(s)}

Last(s) == s[Len(s)]

RECURSIVE SeqSum(_)
SeqSum(s) == IF s = <<>> THEN 0 ELSE s[1] + SeqSum(Tail(s))

----------------------------------------------------------------------------
(* OVDSValidator: the buffers it is given.  A buffer is described by what  *)
(* the validator reads from it: where the first "}\n" lies and whether the *)
(* text before it parses, the fields of the parsed JSON, which marker      *)
(* strings occur in its first 8192 bytes, and the 8-byte entries that      *)
(* follow the last "}" (the LOD table).                                    *)

HintNames == {"azure_optimization", "spatial_locality", "random_slice", "hot",
              "redundant"}

\* a table as createLODStructure lays it out: increasing offsets, sizes > 0
WellFormedEntry(i) == [offset |-> 50 * i, size |-> 16]

\* lodLevels written by convertSEGYToOVDS
ENCODER_LOD_LEVELS == 8

ReferenceInput ==
    [byteLength |-> 1048576,
     originalFileSize |-> 0,
     framing |-> "ok",
     headerKey |-> "ovds_header",
     format |-> "OVDS",
     versionTenths |-> 12,
     azureCompatible |-> TRUE,
     hasCreation |-> TRUE,
     volumePresent |-> TRUE,
     dimensionality |-> 3,
     volFormat |-> "float32",
     lodLevels |-> MaxLodLevels,
     brickSize |-> <<64, 64, 64>>,
     geometryPresent |-> TRUE,
     inlineRange |-> <<1, 1000>>,
     crosslineRange |-> <<1, 100>>,
     sampleRange |-> <<0, 2000>>,
     ijkLength |-> 16,
     compressionPresent |-> TRUE,
     algorithm |-> "wavelet",
     tolerancePct |-> 1,
     hints |-> HintNames,
     spatialOrder |-> TRUE,
     lodTable |-> [i \in 1..MaxLodLevels |-> WellFormedEntry(i)],
     lodAvail |-> MaxLodLevels]

\* the values each field is explored over; <<>> is a missing array and
\* ijkLength -1 a missing matrix
FieldDomain(f) ==
    CASE f = "byteLength" -> {1048576, 1500000000}
      [] f = "originalFileSize" -> {0, 1048576, 2000000000}
      [] f = "framing" -> {"ok", "late", "none", "badjson"}
      [] f = "headerKey" -> {"ovds_header", "header", "absent"}
      [] f = "format" -> {"OVDS", "SEG-Y"}
      [] f = "versionTenths" -> {12, 9}
      [] f = "azureCompatible" -> BOOLEAN
      [] f = "hasCreation" -> BOOLEAN
      [] f = "volumePresent" -> BOOLEAN
      [] f = "dimensionality" -> {3, 2}
      [] f = "volFormat" -> {"float32", "int16"}
      [] f = "lodLevels" -> 0..MaxLodLevels \cup {ENCODER_LOD_LEVELS}
      [] f = "brickSize" -> {<<64, 64, 64>>, <<16, 16, 16>>, <<256, 256, 256>>,
                             <<32, 64, 128>>, <<>>}
      [] f = "geometryPresent" -> BOOLEAN
      [] f = "inlineRange" -> {<<1, 1000>>, <<5, 5>>, <<9, 3>>, <<>>}
      [] f = "crosslineRange" -> {<<1, 100>>, <<1, 1000>>, <<5, 5>>, <<5, 4>>}
      [] f = "sampleRange" -> {<<0, 2000>>, <<7, 7>>, <<9, 3>>, <<>>}
      [] f = "ijkLength" -> {16, 9, -1}
      [] f = "compressionPresent" -> BOOLEAN
      [] f = "algorithm" -> {"wavelet", "rle"}
      [] f = "tolerancePct" -> {1, 0, 10}
      [] f = "hints" -> SUBSET HintNames
      [] f = "spatialOrder" -> BOOLEAN
      [] f = "lodTable" -> (1..MaxLodLevels)
                              \X [offset : {0} \cup {50 * i : i \in 1..MaxLodLevels},
                                  size : {0, 16}]
      [] f = "lodAvail" -> 0..MaxLodLevels \cup {ENCODER_LOD_LEVELS}

\* one field set to one value of its domain; for the LOD table, one entry
Deviations == UNION {{<<f, v>> : v \in FieldDomain(f)} : f \in DOMAIN ReferenceInput}

Deviate(b, d) ==
    IF d[1] = "lodTable" THEN [b EXCEPT !.lodTable[d[2][1]] = d[2][2]]
    ELSE [b EXCEPT ![d[1]] = d[2]]

\* the input that differs from the reference input by the deviations ds
RECURSIVE DeviateAll(_, _)
DeviateAll(b, ds) ==
    IF ds = <<>> THEN b ELSE DeviateAll(Deviate(b, Head(ds)), Tail(ds))

----------------------------------------------------------------------------
(* SeismicConverter: inputs.                                               *)

SEGY_TEXT_HEADER_BYTES == 3200

SEGY_BINARY_HEADER_BYTES == 400

maxFileSizeMB == 10000

BYTES_PER_MB == 1048576

\* file.size < n, for n below one megabyte
ShorterThan(f, n) == f.wholeMB = 0 /\ f.size < n

\* a File: its size, whether reading it fails (with an Error or with some
\* other rejection value), and what validateSEGYHeaders would read from it.
\* file.size is wholeMB * 1024 * 1024 + size bytes, so that sizes at and
\* over the gate's limit are covered.  Byte lengths are explored around 0,
\* the end of the 3200-byte textual header, the end of the 400-byte binary
\* header, and a 2 GB survey.
Files ==
    {f \in [size : {b + k : b \in {0, 3198, 3598, 2002100000},
                             k \in 0..MaxExtraBytes},
            wholeMB : {0, maxFileSizeMB},
            readError : {"none", "Error", "other"}, textHeader : BOOLEAN,
            samplesPerTrace : {0, 1501}, sampleInterval : {0, 2000}] :
        /\ ShorterThan(f, SEGY_TEXT_HEADER_BYTES + SEGY_BINARY_HEADER_BYTES)
              => f.samplesPerTrace = 0 /\ f.sampleInterval = 0
        /\ ShorterThan(f, 1) => ~f.textHeader}

Configs ==
    [sourceFormat : {"SEG-Y", "SEG-D", "LAS", "CSV"},
     targetFormat : {"HDF5", "OVDS", "ZGY", "JSON", "CSV", "SEG-Y", "NetCDF", "LAS"},
     azureCompatible : BOOLEAN]

\* a progress callback: absent, or present and throwing when it is called
\* with the value throwsAt (0: it never throws)
Callbacks ==
    {[present |-> FALSE, throwsAt |-> 0]}
        \cup {[present |-> TRUE, throwsAt |-> v] : v \in {0, 5, 10, 25, 30, 40, 50, 70, 75, 90, 100}}

----------------------------------------------------------------------------
(* SeismicConverter: values.                                               *)

NoErr == [raised |-> FALSE, origin |-> "none", isError |-> FALSE, message |-> ""]

ErrorOf(origin, msg) ==
    [raised |-> TRUE, origin |-> origin, isError |-> TRUE, message |-> msg]

\* new Float32Array(buffer) on a buffer whose length is not a multiple of 4
RangeErrorNotMultipleOf4 ==
    ErrorOf("stage", "byte length of Float32Array should be a multiple of 4")

ReadErrorOf(f) ==
    IF f.readError = "Error"
    THEN ErrorOf("stage", "The requested file could not be read")
    ELSE [raised |-> TRUE, origin |-> "stage", isError |-> FALSE, message |-> ""]

\* An output buffer is described by the segments written into it, in order.
\* A "json" segment is the text JSON.stringify produced (one line, no
\* newline inside or after it), with the top-level keys it carries.
JsonSegment(keys) == [kind |-> "json", keys |-> keys]

DataSegment(kind) == [kind |-> kind, keys |-> {}]

\* lines 314-321: JSON.stringify drops the keys whose value is undefined
OVDSHeaderKeys(structureKeys) ==
    {"ovds_header", "volume_info", "geometry", "compression"}
        \cup (IF "coordinateSystem" \in structureKeys
              THEN {"coordinate_system"} ELSE {})
        \cup (IF "azureOptimization" \in structureKeys
              THEN {"azure_optimization"} ELSE {})

\* lines 312-339: the header, the brick header applyBrickStructure prepends
\* (385-390), the offset table and the levels createLODStructure writes
\* (362-376), and 2048 bytes left zero
createOVDSDataLayout(structureKeys) ==
    <<JsonSegment(OVDSHeaderKeys(structureKeys)),
      JsonSegment({"brick_size", "brick_count", "layout", "margin_handling"}),
      DataSegment("lod_table"), DataSegment("lod_data"), DataSegment("zeros")>>

\* lines 409-430: 256 bytes holding the compression metadata and zeros, then
\* every step-th 4-byte word of the buffer createOVDSData returned
applyOVDSCompressionLayout(dataLayout) ==
    <<JsonSegment({"algorithm", "tolerance", "original_size", "compressed_size",
                   "brick_compression"}),
      DataSegment("zeros"),
      DataSegment("sampled_words")>>

\* the layout of the buffer a conversion returns
OutputLayout(kind) ==
    \* lines 208-252: the structure convertSEGYToOVDS builds
    CASE kind = "OVDS-compressed" ->
             applyOVDSCompressionLayout(createOVDSDataLayout(
                 {"header", "volumeInfo", "coordinateSystem", "geometry",
                  "compression", "azureOptimization"}))
      \* lines 739-762: the structure convertToOVDS builds
      [] kind = "OVDS" ->
             createOVDSDataLayout({"header", "volumeInfo", "geometry", "compression"})
      \* lines 731-734 and 798-801: convertToSEGY and convertToNetCDF return
      \* the buffer they were given, which the parsers of lines 671-695
      \* returned as file.arrayBuffer() delivered it
      [] kind \in {"SEG-Y", "NetCDF"} -> <<DataSegment("input")>>
      [] OTHER -> <<DataSegment("bytes")>>

NoOutput == [present |-> FALSE, kind |-> "none", layout |-> <<>>]

Output(kind) == [present |-> TRUE, kind |-> kind, layout |-> OutputLayout(kind)]

NoMetadata == [present |-> FALSE, format |-> "", samples |-> 0, traces |-> 0,
               samplingRate |-> 0, azureCompatibility |-> FALSE]

NoAzureValidation ==
    [present |-> FALSE, isAzureCompatible |-> FALSE,
     validationSteps |-> [formatValidation |-> FALSE, headerIntegrity |-> FALSE,
                          geometryValidation |-> FALSE, dataIntegrity |-> FALSE],
     recommendations |-> <<>>]

NoResult == [success |-> FALSE, outputData |-> NoOutput, metadata |-> NoMetadata,
             error |-> [present |-> FALSE, message |-> ""],
             azureValidation |-> NoAzureValidation]

NoFile == [size |-> 0, wholeMB |-> 0, readError |-> "none", textHeader |-> FALSE,
           samplesPerTrace |-> 0, sampleInterval |-> 0]

NoConfig == [sourceFormat |-> "SEG-Y", targetFormat |-> "HDF5",
             azureCompatible |-> FALSE]

NoCallback == [present |-> FALSE, throwsAt |-> 0]

----------------------------------------------------------------------------
(* SeismicConverter: the pre-conversion gate.                              *)

AZURE_SUPPORTED_CONVERSIONS == {"SEG-Y", "SEG-D", "LAS"}

\* line 96: file.size / (1024 * 1024) > maxFileSizeMB
ExceedsAzureLimit(f) ==
    \/ f.wholeMB + f.size \div BYTES_PER_MB > maxFileSizeMB
    \/ /\ f.wholeMB + f.size \div BYTES_PER_MB = maxFileSizeMB
       /\ f.size % BYTES_PER_MB > 0

\* validateSEGYHeaders: every failure to read the two headers is caught and
\* reported as false
validateSEGYHeaders(f) ==
    IF f.readError # "none" THEN FALSE
    ELSE IF ShorterThan(f, SEGY_TEXT_HEADER_BYTES) THEN FALSE
    ELSE IF ShorterThan(f, SEGY_TEXT_HEADER_BYTES + SEGY_BINARY_HEADER_BYTES)
    THEN FALSE
    ELSE f.textHeader /\ f.samplesPerTrace > 0 /\ f.sampleInterval > 0

\* header, geometry and data checks for every format of the support table
SEGYSpecificValidationForSupported(sourceFormat) ==
    sourceFormat \in AZURE_SUPPORTED_CONVERSIONS

\* line 101: the header, geometry and data steps are set for SEG-Y only
SEGYSpecificValidation(sourceFormat) == sourceFormat = "SEG-Y"

validateForAzure(f, sourceFormat) ==
    LET formatValidation == sourceFormat \in AZURE_SUPPORTED_CONVERSIONS
        sizeRecs == IF ExceedsAzureLimit(f)
                    THEN <<"File size exceeds Azure limit">> ELSE <<>>
        segy == SEGYSpecificValidation(sourceFormat)
        steps == [formatValidation |-> formatValidation,
                  headerIntegrity |-> IF segy THEN validateSEGYHeaders(f) ELSE FALSE,
                  geometryValidation |-> segy,
                  dataIntegrity |-> segy]
        compatible == /\ steps.formatValidation /\ steps.headerIntegrity
                      /\ steps.geometryValidation /\ steps.dataIntegrity
    IN  IF ~formatValidation
        THEN [present |-> TRUE, isAzureCompatible |-> FALSE,
              validationSteps |-> NoAzureValidation.validationSteps,
              recommendations |-> <<"Format is not supported by Azure Energy Data Services">>]
        ELSE [present |-> TRUE, isAzureCompatible |-> compatible,
              validationSteps |-> steps,
              recommendations |->
                  sizeRecs \o (IF compatible
                               THEN <<"File is compatible with Azure Energy Data Services workflow">>
                               ELSE <<>>)]

----------------------------------------------------------------------------
(* SeismicConverter: the stages convert() dispatches to.  Lengths of the   *)
(* sample buffers are counted in 4-byte words.                             *)

extractMetadata(sourceFormat, azureCompatible) ==
    [present |-> TRUE, format |-> sourceFormat, samples |-> 1000, traces |-> 100,
     samplingRate |-> 2000, azureCompatibility |-> azureCompatible]

\* a level that keeps the unpaired last sample
DownsampledSizeRoundingUp(length) == (length + 1) \div 2

\* line 348: Math.floor(previousLOD.length / 2)
DownsampledSize(length) == length \div 2

\* lengths of the levels of the pyramid createLODStructure builds over n
\* samples: level 0 is the input, each further level has half the samples
RECURSIVE LODLevelLengths(_, _)
LODLevelLengths(n, lodLevels) ==
    IF lodLevels <= 1 THEN <<n>>
    ELSE <<n>> \o LODLevelLengths(DownsampledSize(n), lodLevels - 1)

\* A sample of level k is num / 2^k, or NaN; what a read past the end of a
\* Float32Array returns is undefined.
Sample(num) == [nan |-> FALSE, undefined |-> FALSE, num |-> num]

NaN == [nan |-> TRUE, undefined |-> FALSE, num |-> 0]

\* the Float32Arrays createLODStructure is given
SampleArrays == UNION {[1..n -> {Sample(1), Sample(3), NaN}] : n \in 0..MaxSamples}

\* previousLOD[idx], idx counted from 0; undefined past the end
SampleAt(previousLOD, idx) ==
    IF idx + 1 \in DOMAIN previousLOD THEN previousLOD[idx + 1]
    ELSE [nan |-> FALSE, undefined |-> TRUE, num |-> 0]

\* decimation: the first sample of the pair, the second ignored
LODFirstOfPair(a, b) == IF a.nan \/ a.undefined THEN NaN ELSE Sample(2 * a.num)

\* line 354: (previousLOD[idx] + (previousLOD[idx + 1] || 0)) / 2, as a
\* numerator over the denominator of the next level
LODAverage(a, b) ==
    IF a.nan \/ a.undefined THEN NaN
    \* b || 0
    ELSE Sample(a.num + (IF b.nan \/ b.undefined THEN 0 ELSE b.num))

\* lines 347-355: one level from the previous one
Downsample(previousLOD) ==
    [i \in 1..DownsampledSize(Len(previousLOD)) |->
        LODAverage(SampleAt(previousLOD, (i - 1) * 2),
                   SampleAt(previousLOD, (i - 1) * 2 + 1))]

\* lines 344-358: the pyramid, level 0 first
RECURSIVE LODPyramid(_, _)
LODPyramid(data, lodLevels) ==
    IF lodLevels <= 1 THEN <<data>>
    ELSE <<data>> \o LODPyramid(Downsample(data), lodLevels - 1)

BYTES_PER_SAMPLE == 4

LOD_HEADER_BYTES == 8

\* lines 365-376: the header of each level holds the offset its data is
\* written at and its byteLength
LODTable(lodPyramid, lodLevels) ==
    [level \in 1..lodLevels |->
        [offset |-> lodLevels * LOD_HEADER_BYTES
                      + BYTES_PER_SAMPLE
                          * SeqSum([j \in 1..(level - 1) |-> Len(lodPyramid[j])]),
         size |-> BYTES_PER_SAMPLE * Len(lodPyramid[level])]]

\* lines 341-379
createLODStructure(data, lodLevels) ==
    LET lodPyramid == LODPyramid(data, lodLevels)
    IN  [pyramid |-> lodPyramid, table |-> LODTable(lodPyramid, lodLevels)]

NoLOD == [data |-> <<>>, lodLevels |-> 1, done |-> FALSE, pyramid |-> <<>>,
          table |-> <<>>]

\* a ratio that grows with the tolerance
CompressionRatioTenthsGrowing(tolerance) ==
    IF tolerance = 0 THEN 3 ELSE IF tolerance <= 10 THEN 4 ELSE 6

\* lines 404-406: 0.6 lossless, 0.4 up to a tolerance of 0.01, 0.3 beyond
CompressionRatioTenths(tolerance) ==
    IF tolerance = 0 THEN 6 ELSE IF tolerance <= 10 THEN 4 ELSE 3

COMPRESSION_METADATA_BYTES == 256

RangeErrorInvalidLength == ErrorOf("stage", "Invalid typed array length: -1")

\* lines 401-433.  The result records the sizes and, for the copy loop of
\* lines 427-430, how many words it writes and the step between the words
\* of the input it reads.
applyOVDSCompression(byteLength, tolerance) ==
    LET compressedSize == (byteLength * CompressionRatioTenths(tolerance)) \div 10
        words == byteLength \div BYTES_PER_SAMPLE
        written == (compressedSize - COMPRESSION_METADATA_BYTES) \div BYTES_PER_SAMPLE
        failed(err) == [thrown |-> TRUE, error |-> err, tolerance |-> tolerance,
                        byteLength |-> 0, compressedSize |-> compressedSize,
                        written |-> 0, step |-> 0]
    IN  IF byteLength % BYTES_PER_SAMPLE # 0 THEN failed(RangeErrorNotMultipleOf4)
        ELSE IF compressedSize < COMPRESSION_METADATA_BYTES
        THEN failed(RangeErrorInvalidLength)
        ELSE [thrown |-> FALSE, error |-> NoErr, tolerance |-> tolerance,
              byteLength |-> compressedSize + COMPRESSION_METADATA_BYTES,
              compressedSize |-> compressedSize,
              written |-> written,
              \* Math.ceil(words / written); step 0 stands for Infinity:
              \* nothing is written
              step |-> IF written = 0 THEN 0
                       ELSE (words + written - 1) \div written]

NoCompression == [byteLength |-> 0, calls |-> <<>>]

LOD_HEADER_WORDS == 2

\* byteLength / 4 of the buffer createLODStructure returns
LODStructureWords(n, lodLevels) ==
    SeqSum(LODLevelLengths(n, lodLevels)) + lodLevels * LOD_HEADER_WORDS

\* number of decimal digits of Math.ceil(Math.cbrt(words))
BrickCountDigits(words) ==
    IF words <= 729 THEN 1
    ELSE IF words <= 970299 THEN 2
    ELSE IF words <= 997002999 THEN 3
    ELSE 4

\* bytes of the JSON brick header applyBrickStructure prepends
BRICK_HEADER_FIXED_BYTES == 91

BrickHeaderBytes(words) == BRICK_HEADER_FIXED_BYTES + BrickCountDigits(words)

\* bytes of the JSON header createOVDSData writes for convertSEGYToOVDS
AZURE_OVDS_HEADER_BYTES == 953

OVDS_PADDING_BYTES == 2048

\* byteLength % 4 of the buffer createOVDSData returns to convertSEGYToOVDS
\* for the file f; the LOD structure of a file of 10000 MB and more has
\* over 997002999 and under 9999^3 words, hence a brick count of 4 digits
AzureOVDSDataRemainder(f) ==
    (AZURE_OVDS_HEADER_BYTES
        + (IF f.wholeMB > 0 THEN BRICK_HEADER_FIXED_BYTES + 4
           ELSE BrickHeaderBytes(LODStructureWords(f.size \div 4, ENCODER_LOD_LEVELS)))
        + OVDS_PADDING_BYTES) % 4

----------------------------------------------------------------------------
(* SeismicConverter: running the statements of a stage in order.  A stage  *)
(* is a sequence of progress reports and operations; it stops at the first *)
(* one that throws.                                                        *)

Progress(v) == [kind |-> "progress", value |-> v, name |-> "", throws |-> FALSE,
                error |-> NoErr]

Operation(name, throws, error) ==
    [kind |-> "op", value |-> 0, name |-> name, throws |-> throws, error |-> error]

RECURSIVE RunStatements(_, _, _)
RunStatements(script, cb, acc) ==
    IF script = <<>> THEN acc
    ELSE LET st == Head(script) IN
         IF st.kind = "progress"
         THEN IF ~cb.present THEN RunStatements(Tail(script), cb, acc)
              ELSE IF cb.throwsAt = st.value
              \* what a throwing progress callback throws is the caller's
              \* choice: an Error whose message may be empty
              THEN [acc EXCEPT !.log = Append(@, st.value),
                               !.err = ErrorOf("callback", "")]
              ELSE RunStatements(Tail(script), cb,
                                 [acc EXCEPT !.log = Append(@, st.value)])
         ELSE IF st.throws
              THEN [acc EXCEPT !.stages = Append(@, st.name), !.err = st.error]
              ELSE RunStatements(Tail(script), cb,
                                 [acc EXCEPT !.stages = Append(@, st.name)])

Run(script, cb) ==
    RunStatements(script, cb, [log |-> <<>>, stages |-> <<>>, err |-> NoErr])

\* a catch block that hands back the buffer built so far
ConvertCatchKeepingOutput(err) ==
    [outcome |-> "returned",
     result |-> [success |-> FALSE, outputData |-> Output("partial"),
                 metadata |-> NoMetadata,
                 error |-> [present |-> TRUE,
                            message |-> IF err.isError THEN err.message
                                        ELSE "Unknown conversion error"],
                 azureValidation |-> NoAzureValidation]]

\* a catch block that rethrows what is not an Error
ConvertCatchRethrowing(err) ==
    IF err.isError
    THEN [outcome |-> "returned",
          result |-> [success |-> FALSE, outputData |-> NoOutput,
                      metadata |-> NoMetadata,
                      error |-> [present |-> TRUE, message |-> err.message],
                      azureValidation |-> NoAzureValidation]]
    ELSE [outcome |-> "rejected", result |-> NoResult]

\* the catch block of convert(): the error becomes a failed result
ConvertCatch(err) ==
    [outcome |-> "returned",
     result |-> [success |-> FALSE, outputData |-> NoOutput, metadata |-> NoMetadata,
                 error |-> [present |-> TRUE,
                            message |-> IF err.isError THEN err.message
                                        ELSE "Unknown conversion error"],
                 azureValidation |-> NoAzureValidation]]

\* the early return of convert() when the gate rejects the file
GateRejection(av) ==
    [success |-> FALSE, outputData |-> NoOutput, metadata |-> NoMetadata,
     error |-> [present |-> TRUE,
                message |-> "File is not compatible with Azure Energy Data Services"],
     azureValidation |-> av]

Success(out, md, av) ==
    [success |-> TRUE, outputData |-> out, metadata |-> md,
     error |-> [present |-> FALSE, message |-> ""], azureValidation |-> av]

----------------------------------------------------------------------------
(* SeismicConverter.convert: the statements of each stage.                 *)

GateStatements == <<Progress(5), Operation("validateForAzure", FALSE, NoErr)>>

\* a gate whose verdict is computed but not acted upon
GateRejectsNever(av) == FALSE

\* the gate's verdict makes convert() return early
GateRejects(av) == ~av.isAzureCompatible

ParseStatements(f) ==
    <<Progress(10),
      Operation("parseInputFile", f.readError # "none", ReadErrorOf(f))>>

MetadataStatements == <<Progress(25), Operation("extractMetadata", FALSE, NoErr)>>

\* the branch convert() takes after metadata extraction
Dispatch(c) ==
    IF c.azureCompatible /\ c.sourceFormat = "SEG-Y"
          /\ c.targetFormat \in {"OVDS", "ZGY"}
    THEN IF c.targetFormat = "OVDS" THEN "convertSEGYToOVDS" ELSE "convertSEGYToZGY"
    ELSE IF c.targetFormat = "HDF5" THEN "convertToHDF5"
    ELSE "convertToFormat"

\* lines 312-339: what createOVDSData does, in order: it encodes the JSON
\* header, builds the LOD pyramid, arranges it in bricks and copies header
\* and bricks into the buffer it returns
createOVDSDataStatements ==
    <<Operation("TextEncoder.encode", FALSE, NoErr),
      Operation("createLODStructure", FALSE, NoErr),
      Operation("applyBrickStructure", FALSE, NoErr),
      Operation("createOVDSData", FALSE, NoErr)>>

SEGYToOVDSStatements(f) ==
    <<Progress(30),
      Progress(50),
      Operation("Float32Array", f.size % 4 # 0, RangeErrorNotMultipleOf4)>>
    \o createOVDSDataStatements
    \o <<Progress(75),
          Operation("applyOVDSCompression", AzureOVDSDataRemainder(f) # 0,
                    RangeErrorNotMultipleOf4),
          Progress(90),
          Progress(100)>>

\* convert() calls this.convertSEGYToZGY, which the class does not define
SEGYToZGYStatements ==
    <<Operation("convertSEGYToZGY", TRUE,
                ErrorOf("stage", "this.convertSEGYToZGY is not a function"))>>

\* the HDF5 stage reporting its first two percentages in the wrong order
HDF5StatementsOutOfOrder(f) ==
    <<Progress(70),
      Operation("Float32Array", f.size % 4 # 0, RangeErrorNotMultipleOf4),
      Progress(40),
      Operation("createSimulatedHDF5", FALSE, NoErr),
      Progress(90)>>

HDF5Statements(f) ==
    <<Progress(40),
      Operation("Float32Array", f.size % 4 # 0, RangeErrorNotMultipleOf4),
      Progress(70),
      Operation("createSimulatedHDF5", FALSE, NoErr),
      Progress(90)>>

\* converters that all view their input as 32-bit samples
FormatOperationReinterpretingAll(f, targetFormat) ==
    IF targetFormat \in {"JSON", "CSV", "OVDS", "ZGY", "SEG-Y", "NetCDF"}
    THEN Operation("convertTo" \o targetFormat, f.size % 4 # 0,
                   RangeErrorNotMultipleOf4)
    ELSE Operation("convertToFormat", TRUE,
                   ErrorOf("stage", "Unsupported target format: " \o targetFormat))

\* the converter convertToFormat selects, and whether it throws
FormatOperation(f, targetFormat) ==
    IF targetFormat \in {"JSON", "CSV", "OVDS", "ZGY"}
    THEN Operation("convertTo" \o targetFormat, f.size % 4 # 0,
                   RangeErrorNotMultipleOf4)
    ELSE IF targetFormat \in {"SEG-Y", "NetCDF"}
    THEN Operation("convertTo" \o targetFormat, FALSE, NoErr)
    ELSE Operation("convertToFormat", TRUE,
                   ErrorOf("stage", "Unsupported target format: " \o targetFormat))

\* lines 179-187; convertToOVDS (736-780) goes on to call createOVDSData
FormatStatements(f, targetFormat) ==
    <<Progress(50), FormatOperation(f, targetFormat)>>
    \o (IF targetFormat = "OVDS" THEN createOVDSDataStatements ELSE <<>>)
    \o <<Progress(100)>>

\* the metadata attached by the converter convertToFormat selects
FormatMetadata(md, targetFormat) ==
    IF targetFormat = "OVDS"
    THEN [md EXCEPT !.format = "OVDS", !.azureCompatibility = TRUE]
    ELSE md

----------------------------------------------------------------------------
(* StorageManager.saveConvertedData.  An optional string that is undefined *)
(* is written "".                                                          *)

\* StorageConfig; the type "ftp" stands for a value outside the declared
\* union, the first Azure configuration for an undefined one
StorageConfigs ==
    [type : {"local", "azure", "both", "ftp"},
     localPath : {"", "/data"},
     azure : {[present |-> FALSE, accountName |-> "", containerName |-> "",
               blobName |-> "", sasToken |-> ""]}
                 \cup [present : {TRUE}, accountName : {"", "acct"},
                       containerName : {"", "surveys"}, blobName : {"", "line1.vds"},
                       sasToken : {"", "sv=2021-06-08"}]]

\* what the environment does: the download of saveLocal works, or throws an
\* Error or another value; the PUT of uploadToAzureBlob is answered ok, is
\* answered with an error status, or fetch rejects with an Error or another
\* value
StorageEnvironments == [local : {"ok", "Error", "other"},
                        upload : {"ok", "http", "Error", "other"}]

Thrown(isError, message) ==
    [thrown |-> TRUE, isError |-> isError, message |-> message, value |-> ""]

Returns(value) ==
    [thrown |-> FALSE, isError |-> FALSE, message |-> "", value |-> value]

\* lines 64-94
saveLocal(fileName, localPath, env) ==
    LET path == IF localPath # "" THEN localPath ELSE "./converted_files"
        fullPath == path \o "/" \o fileName
    IN  CASE env.local = "ok" -> Returns(fullPath)
          [] env.local = "Error" -> Thrown(TRUE, "document.body is null")
          [] OTHER -> Thrown(FALSE, "")

\* lines 126-166: with a SAS token the blob is PUT with fetch; without one
\* the upload is simulated and succeeds
uploadToAzureBlob(sasToken, env) ==
    IF sasToken = "" THEN Returns("")
    ELSE CASE env.upload = "ok" -> Returns("")
           [] env.upload = "http" -> Thrown(TRUE, "HTTP 403: Forbidden")
           [] env.upload = "Error" -> Thrown(TRUE, "Failed to fetch")
           [] OTHER -> Thrown(FALSE, "")

\* lines 96-124
saveToAzure(fileName, azureConfig, env) ==
    IF ~azureConfig.present
    THEN Thrown(TRUE, "Azure configuration is required for cloud storage")
    ELSE IF azureConfig.accountName = ""
    THEN Thrown(TRUE, "Azure account name is required")
    ELSE LET containerName == IF azureConfig.containerName = "" THEN "seismic-data"
                              ELSE azureConfig.containerName
             blobPath == IF azureConfig.blobName # "" THEN azureConfig.blobName
                         ELSE fileName
             azureUrl == "https://" \o azureConfig.accountName
                             \o ".blob.core.windows.net/" \o containerName
                             \o "/" \o blobPath
             upload == uploadToAzureBlob(azureConfig.sasToken, env)
         IN  IF upload.thrown
             THEN Thrown(TRUE, "Azure upload failed: "
                                   \o (IF upload.isError THEN upload.message
                                       ELSE "Unknown error"))
             ELSE Returns(azureUrl)

\* a catch block that lets the error escape
StorageCatchRethrowing(res, err) == [outcome |-> "thrown", result |-> res]

\* lines 58-61
StorageCatch(res, err) ==
    [outcome |-> "returned",
     result |-> [res EXCEPT !.uploadError = IF err.isError THEN err.message
                                            ELSE "Storage operation failed"]]

\* lines 25-62; res is the result of lines 30-33
saveConvertedData(fileName, storageConfig, env) ==
    LET res == [storageType |-> storageConfig.type, uploadSuccess |-> FALSE,
                localPath |-> "", azureUrl |-> "", uploadError |-> ""]
        local == saveLocal(fileName, storageConfig.localPath, env)
        azure == saveToAzure(fileName, storageConfig.azure, env)
        Return(r) == [outcome |-> "returned",
                      result |-> [r EXCEPT !.uploadSuccess = TRUE]]
    IN  CASE storageConfig.type = "local" ->
                 IF local.thrown THEN StorageCatch(res, local)
                 ELSE Return([res EXCEPT !.localPath = local.value])
          [] storageConfig.type = "azure" ->
                 IF azure.thrown THEN StorageCatch(res, azure)
                 ELSE Return([res EXCEPT !.azureUrl = azure.value])
          [] storageConfig.type = "both" ->
                 IF local.thrown THEN StorageCatch(res, local)
                 ELSE LET saved == [res EXCEPT !.localPath = local.value]
                      IN  IF azure.thrown THEN StorageCatch(saved, azure)
                          ELSE Return([saved EXCEPT !.azureUrl = azure.value])
          [] OTHER ->
                 StorageCatch(res, Thrown(TRUE, "Unsupported storage type: "
                                                    \o storageConfig.type))

\* no call of saveConvertedData is under way
NoStorageCall ==
    [pc |-> "idle", fileName |-> "",
     config |-> [type |-> "", localPath |-> "",
                 azure |-> [present |-> FALSE, accountName |-> "",
                            containerName |-> "", blobName |-> "", sasToken |-> ""]],
     env |-> [local |-> "", upload |-> ""], outcome |-> "pending",
     result |-> [storageType |-> "", uploadSuccess |-> FALSE, localPath |-> "",
                 azureUrl |-> "", uploadError |-> ""]]

----------------------------------------------------------------------------
(* App: the file and format selection, the running job and the history.    *)

\* line 156: prev.slice(0, 9)
HISTORY_KEPT == 9

\* lines 50-99: the format detected from the extension of the file name
formatMap(extension) ==
    CASE extension \in {"segy", "sgy", "seg"} -> "SEG-Y"
      [] extension \in {"segd", "sgd"} -> "SEG-D"
      [] extension = "csv" -> "CSV"
      [] OTHER -> "Unknown"

\* currentJob === null
NoJob == [id |-> 0, fileName |-> "", sourceFormat |-> "", targetFormat |-> "",
          status |-> "none", progress |-> 0, timestamp |-> 0, error |-> "",
          downloadUrl |-> FALSE]

\* a history that keeps every job
HistoryKeepingAll(prev, completedJob) == <<completedJob>> \o prev

\* line 156: [completedJob, ...prev.slice(0, 9)]
HistoryUpdate(prev, completedJob) ==
    <<completedJob>>
        \o SubSeq(prev, 1, IF Len(prev) < HISTORY_KEPT THEN Len(prev) ELSE HISTORY_KEPT)

\* lines 43-46: a freshly mounted App with an empty history store; job is
\* the argument of the running simulateConversion, now the clock
NewApp ==
    [currentFile |-> [present |-> FALSE, name |-> "", format |-> ""],
     targetFormat |-> "OVDS", currentJob |-> NoJob, conversionHistory |-> <<>>,
     converting |-> FALSE, job |-> NoJob, result |-> NoResult, now |-> 0]

----------------------------------------------------------------------------
(* SeismicConverter.convert: the actions.                                  *)

InitConvert ==
    /\ pc = "idle"
    /\ file = NoFile
    /\ config = NoConfig
    /\ callback = NoCallback
    /\ progressLog = <<>>
    /\ stagesRun = <<>>
    /\ outcome = "pending"
    /\ result = NoResult
    /\ failOrigin = "none"
    /\ azureValidation = NoAzureValidation
    /\ metadata = NoMetadata
    /\ vin = ReferenceInput
    /\ vcalls = <<>>
    /\ lod = NoLOD
    /\ comp = NoCompression
    /\ storage = NoStorageCall
    /\ app = NewApp

\* the statements of a stage ran: r is what they reported and executed
Ran(r) ==
    /\ progressLog' = progressLog \o r.log
    /\ stagesRun' = stagesRun \o r.stages

\* an error reached the catch block of convert()
Caught(err) ==
    LET c == ConvertCatch(err)
    IN  /\ outcome' = c.outcome
        /\ result' = c.result
        /\ failOrigin' = err.origin
        /\ pc' = "done"

Returned(res) ==
    /\ outcome' = "returned"
    /\ result' = res
    /\ failOrigin' = "none"
    /\ pc' = "done"

\* a caller invokes convert(file, config, progressCallback)
Convert ==
    /\ pc = "idle"
    /\ \E f \in Files, c \in Configs, cb \in Callbacks :
          /\ file' = f
          /\ config' = c
          /\ callback' = cb
    /\ pc' = "gate"
    /\ UNCHANGED <<progressLog, stagesRun, outcome, result, failOrigin,
                   azureValidation, metadata, vin, vcalls, lod, comp,
                   storage, app>>

\* lines 145-157: the Azure compatibility check, when requested
Gate ==
    /\ pc = "gate"
    /\ IF ~config.azureCompatible
       THEN /\ pc' = "parse"
            /\ UNCHANGED <<progressLog, stagesRun, outcome, result, failOrigin,
                           azureValidation>>
       ELSE LET r == Run(GateStatements, callback)
                av == validateForAzure(file, config.sourceFormat)
            IN  /\ Ran(r)
                /\ IF r.err.raised
                   THEN Caught(r.err) /\ UNCHANGED azureValidation
                   ELSE IF GateRejects(av)
                   THEN /\ outcome' = "returned"
                        /\ result' = GateRejection(av)
                        /\ failOrigin' = "gate"
                        /\ pc' = "done"
                        /\ azureValidation' = av
                   ELSE /\ azureValidation' = av
                        /\ pc' = "parse"
                        /\ UNCHANGED <<outcome, result, failOrigin>>
    /\ UNCHANGED <<file, config, callback, metadata, vin, vcalls, lod, comp,
                   storage, app>>

\* lines 159-161: parse the input file
ParseInput ==
    /\ pc = "parse"
    /\ LET r == Run(ParseStatements(file), callback)
       IN  /\ Ran(r)
           /\ IF r.err.raised
              THEN Caught(r.err)
              ELSE pc' = "metadata" /\ UNCHANGED <<outcome, result, failOrigin>>
    /\ UNCHANGED <<file, config, callback, azureValidation, metadata, vin, vcalls, lod, comp,
                   storage, app>>

\* lines 163-165: extract the metadata, then choose the conversion
ExtractMetadata ==
    /\ pc = "metadata"
    /\ LET r == Run(MetadataStatements, callback)
       IN  /\ Ran(r)
           /\ IF r.err.raised
              THEN Caught(r.err) /\ UNCHANGED metadata
              ELSE /\ metadata' = extractMetadata(config.sourceFormat,
                                                  config.azureCompatible)
                   /\ pc' = Dispatch(config)
                   /\ UNCHANGED <<outcome, result, failOrigin>>
    /\ UNCHANGED <<file, config, callback, azureValidation, vin, vcalls, lod, comp,
                   storage, app>>

\* lines 197-296
ConvertSEGYToOVDS ==
    /\ pc = "convertSEGYToOVDS"
    /\ LET r == Run(SEGYToOVDSStatements(file), callback)
       IN  /\ Ran(r)
           /\ IF r.err.raised
              THEN Caught(r.err)
              ELSE Returned(Success(Output("OVDS-compressed"),
                                    [metadata EXCEPT !.format = "OVDS",
                                                     !.azureCompatibility = TRUE],
                                    azureValidation))
    /\ UNCHANGED <<file, config, callback, azureValidation, metadata, vin, vcalls, lod, comp,
                   storage, app>>

\* line 171
ConvertSEGYToZGY ==
    /\ pc = "convertSEGYToZGY"
    /\ LET r == Run(SEGYToZGYStatements, callback)
       IN  /\ Ran(r)
           /\ IF r.err.raised
              THEN Caught(r.err)
              ELSE Returned(Success(Output("ZGY"),
                                    [metadata EXCEPT !.format = "ZGY"],
                                    azureValidation))
    /\ UNCHANGED <<file, config, callback, azureValidation, metadata, vin, vcalls, lod, comp,
                   storage, app>>

\* lines 567-615
ConvertToHDF5 ==
    /\ pc = "convertToHDF5"
    /\ LET r == Run(HDF5Statements(file), callback)
       IN  /\ Ran(r)
           /\ IF r.err.raised
              THEN Caught(r.err)
              ELSE Returned(Success(Output("HDF5"), metadata, NoAzureValidation))
    /\ UNCHANGED <<file, config, callback, azureValidation, metadata, vin, vcalls, lod, comp,
                   storage, app>>

\* lines 179-187 and 645-668
ConvertToFormat ==
    /\ pc = "convertToFormat"
    /\ LET r == Run(FormatStatements(file, config.targetFormat), callback)
       IN  /\ Ran(r)
           /\ IF r.err.raised
              THEN Caught(r.err)
              ELSE Returned(Success(Output(config.targetFormat),
                                    FormatMetadata(metadata, config.targetFormat),
                                    azureValidation))
    /\ UNCHANGED <<file, config, callback, azureValidation, metadata, vin, vcalls, lod, comp,
                   storage, app>>

\* the caller has the result; the next call starts from scratch
ConvertDone ==
    /\ pc = "done"
    /\ pc' = "idle"
    /\ file' = NoFile
    /\ config' = NoConfig
    /\ callback' = NoCallback
    /\ progressLog' = <<>>
    /\ stagesRun' = <<>>
    /\ outcome' = "pending"
    /\ result' = NoResult
    /\ failOrigin' = "none"
    /\ azureValidation' = NoAzureValidation
    /\ metadata' = NoMetadata
    /\ UNCHANGED <<vin, vcalls, lod, comp,
                   storage, app>>

ConvNext ==
    \/ Convert
    \/ Gate
    \/ ParseInput
    \/ ExtractMetadata
    \/ ConvertSEGYToOVDS
    \/ ConvertSEGYToZGY
    \/ ConvertToHDF5
    \/ ConvertToFormat
    \/ ConvertDone

SpecConvert == InitConvert /\ [][ConvNext]_vars

----------------------------------------------------------------------------
(* Properties of SeismicConverter.convert.                                 *)

Settled == pc = "done"

\* C1: a result with success=false never carries outputData, whichever
\* path produced it (gate rejection, or an error caught in parsing, metadata
\* extraction, encoding or format selection).
C1_FailureHasNoOutput ==
    (Settled /\ ~result.success) => ~result.outputData.present

\* the encoder failed after createOVDSData had already built a buffer
C1_Witness ==
    /\ Settled
    /\ ~result.success
    /\ stagesRun # <<>>
    /\ Last(stagesRun) = "applyOVDSCompression"

\* C2: convert never rejects; an error raised by the gate or by a stage is
\* returned as success=false with a non-empty error message, and a result
\* with success=true carries no error.
C2_ErrorsAreReturned ==
    /\ outcome # "rejected"
    /\ Settled => outcome = "returned"
    /\ (Settled /\ failOrigin \in {"gate", "stage"}) =>
          /\ ~result.success
          /\ result.error.present
          /\ result.error.message # ""
    /\ (Settled /\ failOrigin = "callback") => ~result.success
    /\ (Settled /\ result.success) => ~result.error.present /\ failOrigin = "none"

\* reading the file was rejected with a value that is not an Error
C2_Witness ==
    /\ Settled
    /\ failOrigin = "stage"
    /\ file.readError = "other"
    /\ result.error.message = "Unknown conversion error"

\* C3: whenever convert returns success=true and a callback was supplied,
\* the last value passed to the callback is 100.
C3_SuccessEndsAt100 ==
    (Settled /\ result.success /\ callback.present) =>
        (progressLog # <<>> /\ Last(progressLog) = 100)

\* C4: the values passed to the progress callback during one call are
\* strictly increasing and lie within 0..100, also on failing paths.
C4_ProgressIncreases ==
    \A i \in 1..Len(progressLog) :
        /\ progressLog[i] \in 0..100
        /\ i > 1 => progressLog[i - 1] < progressLog[i]

\* a failing Azure OVDS run that reported five values before the error
C4_Witness ==
    /\ Settled
    /\ ~result.success
    /\ Len(progressLog) >= 5
    /\ "Float32Array" \in Range(stagesRun)

\* C5: when the gate ran and reported isAzureCompatible=false, convert has
\* returned success=false with the gate's report attached, the gate is the
\* only operation that ran, and no progress value other than the gate's 5
\* was reported.
C5_GateShortCircuits ==
    (azureValidation.present /\ ~azureValidation.isAzureCompatible) =>
        /\ Settled
        /\ outcome = "returned"
        /\ ~result.success
        /\ result.azureValidation = azureValidation
        /\ stagesRun = <<"validateForAzure">>
        /\ progressLog \in {<<>>, <<5>>}

\* a SEG-Y file too short for its headers was rejected by the gate
C5_Witness ==
    /\ Settled
    /\ azureValidation.present
    /\ ~azureValidation.isAzureCompatible
    /\ azureValidation.validationSteps.formatValidation
    /\ progressLog = <<5>>

----------------------------------------------------------------------------
(* OVDSValidator: the report and the seven steps.  A step takes the report *)
(* built so far and returns it with the warnings and recommendations it    *)
(* pushed, its result, and whether it threw.                               *)

\* lines 58-78: the report a call starts from
NewValidation(data) ==
    [isValid |-> FALSE,
     azureCompatible |-> FALSE,
     validationSteps |-> [headerStructure |-> FALSE, volumeInfo |-> FALSE,
                          coordinateSystem |-> FALSE, compression |-> FALSE,
                          lodStructure |-> FALSE, brickLayout |-> FALSE,
                          azureOptimization |-> FALSE],
     performanceMetrics |->
         [fileSize |-> data.byteLength,
          \* data.byteLength / originalFileSize, or 1.0, as a fraction
          compressionRatio |->
              IF data.originalFileSize # 0
              THEN [num |-> data.byteLength, den |-> data.originalFileSize]
              ELSE [num |-> 1, den |-> 1],
          \* (bytes / 1024 / 1024) / rateMBps; rateMBps 0 stands for the
          \* initial value 0
          estimatedLoadTime |-> [bytes |-> 0, rateMBps |-> 0],
          \* in hundredths
          randomAccessScore |-> 0],
     recommendations |-> <<>>,
     warnings |-> <<>>]

Warn(v, msg) == [v EXCEPT !.warnings = Append(@, msg)]

Recommend(v, msg) == [v EXCEPT !.recommendations = Append(@, msg)]

WarnIf(cond, v, msg) == IF cond THEN Warn(v, msg) ELSE v

RecommendIf(cond, v, msg) == IF cond THEN Recommend(v, msg) ELSE v

StepDone(v, res) == [thrown |-> FALSE, message |-> "", result |-> res, v |-> v]

StepThrew(v, msg) == [thrown |-> TRUE, message |-> msg, result |-> FALSE, v |-> v]

\* the text before the first "}\n" of the first 2048 bytes parses as JSON
HeaderParses(data) == data.framing = "ok"

\* the text before the first "}\n" of the first 4096 bytes parses as JSON
MetadataParses(data) == data.framing \in {"ok", "late"}

extractOVDSHeader(data) ==
    LET DefaultHeader == [format |-> "Unknown", versionTenths |-> 0,
                          azureCompatible |-> FALSE, hasCreation |-> FALSE]
    IN  IF ~HeaderParses(data)
        THEN [thrown |-> TRUE, message |-> "Invalid OVDS header structure",
              value |-> DefaultHeader]
        ELSE [thrown |-> FALSE, message |-> "",
              value |-> IF data.headerKey = "absent" THEN DefaultHeader
                        ELSE [format |-> data.format,
                              versionTenths |-> data.versionTenths,
                              azureCompatible |-> data.azureCompatible,
                              hasCreation |-> data.hasCreation]]

DefaultVolumeInfo == [dimensionality |-> 3, format |-> "float32", lodLevels |-> 1,
                      brickSize |-> <<64, 64, 64>>]

extractVolumeInfo(data) ==
    IF ~MetadataParses(data)
    THEN [thrown |-> TRUE, message |-> "Invalid OVDS volume information",
          value |-> DefaultVolumeInfo]
    ELSE [thrown |-> FALSE, message |-> "",
          value |-> IF ~data.volumePresent THEN DefaultVolumeInfo
                    ELSE [dimensionality |-> data.dimensionality,
                          format |-> data.volFormat,
                          lodLevels |-> data.lodLevels,
                          brickSize |-> data.brickSize]]

extractGeometry(data) ==
    LET DefaultGeometry ==
            [inlineRange |-> <<1, 1000>>, crosslineRange |-> <<1, 100>>,
             sampleRange |-> <<0, 2000>>, ijkLength |-> 16]
    IN  IF ~MetadataParses(data)
        THEN [thrown |-> TRUE, message |-> "Invalid OVDS geometry information",
              value |-> DefaultGeometry]
        ELSE [thrown |-> FALSE, message |-> "",
              value |-> IF ~data.geometryPresent THEN DefaultGeometry
                        ELSE [inlineRange |-> data.inlineRange,
                              crosslineRange |-> data.crosslineRange,
                              sampleRange |-> data.sampleRange,
                              ijkLength |-> data.ijkLength]]

\* lines 185-211
validateHeader(header, v) ==
    LET formatOk == header.format = "OVDS"
        v1 == WarnIf(~formatOk, v, "Header format field should be \"OVDS\"")
        v2 == WarnIf(header.versionTenths < 10, v1,
                     "OVDS version should be 1.0 or higher for Azure compatibility")
        v3 == RecommendIf(~header.azureCompatible, v2,
                          "Enable Azure compatibility flag for optimal cloud performance")
        v4 == WarnIf(~header.hasCreation, v3,
                     "Missing creation metadata - recommended for data lineage tracking")
    IN  StepDone(v4, formatOk)

\* lines 213-243
validateVolumeInfo(volumeInfo, v) ==
    LET dimOk == volumeInfo.dimensionality = 3
        v1 == WarnIf(~dimOk, v,
                     "Only 3D volumes are fully supported by Azure Energy Data Services")
        v2 == WarnIf(volumeInfo.format # "float32", v1,
                     "float32 format recommended for best Azure compatibility")
        v3 == RecommendIf(volumeInfo.lodLevels < 4, v2,
                          "Consider using 4+ LOD levels for better streaming performance")
        v4 == RecommendIf(volumeInfo.brickSize \notin {<<32, 32, 32>>, <<64, 64, 64>>,
                                                         <<128, 128, 128>>}, v3,
                          "Use brick sizes of 32^3, 64^3, or 128^3 for optimal cloud performance")
    IN  StepDone(v4, dimOk)

TypeErrorReading(what) ==
    "Cannot read properties of undefined (reading '" \o what \o "')"

\* lines 245-271; reading an element of a missing range, or the length of a
\* missing matrix, throws a TypeError
validateGeometry(geometry, v) ==
    IF geometry.inlineRange = <<>> \/ geometry.crosslineRange = <<>>
          \/ geometry.sampleRange = <<>>
    THEN StepThrew(v, TypeErrorReading("1"))
    ELSE LET inlineCount == geometry.inlineRange[2] - geometry.inlineRange[1] + 1
             crosslineCount ==
                 geometry.crosslineRange[2] - geometry.crosslineRange[1] + 1
             sampleCount == geometry.sampleRange[2] - geometry.sampleRange[1]
             rangesOk == ~(inlineCount <= 0 \/ crosslineCount <= 0 \/ sampleCount <= 0)
             v1 == WarnIf(~rangesOk, v, "Invalid coordinate ranges detected")
         IN  IF geometry.ijkLength = -1
             THEN StepThrew(v1, TypeErrorReading("length"))
             ELSE LET matrixOk == geometry.ijkLength = 16
                      v2 == WarnIf(~matrixOk, v1,
                                   "IJK to World transformation matrix should be 4x4 (16 elements)")
                      v3 == RecommendIf(
                                inlineCount * crosslineCount * sampleCount > 1000000000,
                                v2,
                                "Large volumes benefit from higher compression and more LOD levels")
                  IN  StepDone(v3, rangesOk /\ matrixOk)

\* lines 273-302
validateCompression(data, v) ==
    IF ~MetadataParses(data)
    THEN StepDone(Warn(v, "Cannot validate compression settings"), FALSE)
    ELSE IF ~data.compressionPresent
    THEN StepDone(Warn(v, "No compression configuration found - file may be inefficient for cloud storage"),
                  FALSE)
    ELSE LET v1 == RecommendIf(data.algorithm \notin {"wavelet", "zstd", "lz4"}, v,
                               "Consider using wavelet, zstd, or lz4 compression for better performance")
             v2 == WarnIf(data.tolerancePct # 0 /\ data.tolerancePct > 5, v1,
                          "Compression tolerance >5% may affect data quality for seismic analysis")
         IN  StepDone(v2, TRUE)

\* the i-th 8-byte entry after the end of the metadata (i from 1)
LODEntryAt(data, i) ==
    IF i <= MaxLodLevels THEN data.lodTable[i] ELSE WellFormedEntry(i)

LODOrderingWarning == "Invalid LOD structure - offsets should be increasing"

LODZeroSizeWarning(level) == "LOD level " \o ToString(level) \o " has zero size"

\* a comparison that lets two levels share an offset
LODOffsetDecreasing(offset, previousOffset) == offset < previousOffset

\* line 319
LODOffsetOutOfOrder(offset, previousOffset) == offset <= previousOffset

\* lines 315-330: the loop over the levels, from level i (counted from 1)
RECURSIVE LODLoop(_, _, _, _, _)
LODLoop(data, lodLevels, i, previousOffset, v) ==
    IF i > lodLevels
    THEN StepDone(Recommend(v, "LOD structure validated - supports efficient multi-resolution streaming"),
                  TRUE)
    ELSE LET e == LODEntryAt(data, i) IN
         IF LODOffsetOutOfOrder(e.offset, previousOffset)
         THEN StepDone(Warn(v, LODOrderingWarning), FALSE)
         ELSE IF e.size = 0
         THEN StepDone(Warn(v, LODZeroSizeWarning(i - 1)), FALSE)
         ELSE LODLoop(data, lodLevels, i + 1, e.offset, v)

\* lines 304-338; a table that runs past the end of the buffer makes the
\* DataView constructor throw, which the step catches
validateLODStructure(data, volumeInfo, v) ==
    IF volumeInfo.lodLevels > data.lodAvail
    THEN StepDone(Warn(v, "Cannot validate LOD structure"), FALSE)
    ELSE LODLoop(data, volumeInfo.lodLevels, 1, 0, v)

\* lines 340-368
validateBrickLayout(data, volumeInfo, v) ==
    IF volumeInfo.brickSize = <<>>
    THEN StepThrew(v, TypeErrorReading("0"))
    ELSE LET totalBrickSize == volumeInfo.brickSize[1] * volumeInfo.brickSize[2]
                                   * volumeInfo.brickSize[3]
             v1 == WarnIf(totalBrickSize > 1048576, v,
                          "Large brick size may impact random access performance")
             v2 == WarnIf(totalBrickSize < 4096, v1,
                          "Small brick size may cause overhead in cloud storage")
             v3 == IF data.spatialOrder
                   THEN Recommend(v2, "Spatial ordering detected - optimizes cache locality")
                   ELSE Recommend(v2, "Consider using Morton/Z-order curve for better spatial locality")
         IN  StepDone(v3, TRUE)

maxScore == 5

\* lines 376-403: one point per marker found in the first 8192 bytes
OptimizationScore(data) == Cardinality(data.hints)

\* lines 370-415
validateAzureOptimization(data, v) ==
    LET score == OptimizationScore(data)
        v1 == RecommendIf("azure_optimization" \in data.hints, v,
                          "Azure optimization metadata found")
        v2 == RecommendIf(score * 10 < 6 * maxScore, v1,
                          "Consider adding Azure-specific optimization metadata")
    \* line 410: score / maxScore > 0.4
    IN  StepDone(v2, score * 10 > 4 * maxScore)

baseMBps == 100

\* baseMBps * compressionBonus * lodBonus, the bonuses in tenths
EffectiveTransferRate(steps, volumeInfo) ==
    LET compressionBonus == IF steps.compression THEN 15 ELSE 10
        lodBonus == IF volumeInfo.lodLevels > 4 THEN 13 ELSE 10
    IN  (baseMBps * compressionBonus * lodBonus) \div 100

\* a score that starts from 0.2
RandomAccessScoreLowBase(steps) ==
    LET accessScore == 20 + (IF steps.brickLayout THEN 15 ELSE 0)
                          + (IF steps.lodStructure THEN 15 ELSE 0)
                          + (IF steps.compression THEN 10 ELSE 0)
                          + (IF steps.azureOptimization THEN 10 ELSE 0)
    IN  IF accessScore > 100 THEN 100 ELSE accessScore

\* lines 428-436, in hundredths
RandomAccessScore(steps) ==
    LET accessScore == 50 + (IF steps.brickLayout THEN 15 ELSE 0)
                          + (IF steps.lodStructure THEN 15 ELSE 0)
                          + (IF steps.compression THEN 10 ELSE 0)
                          + (IF steps.azureOptimization THEN 10 ELSE 0)
    IN  IF accessScore > 100 THEN 100 ELSE accessScore

\* lines 417-437
calculatePerformanceMetrics(v, volumeInfo) ==
    [v EXCEPT
        !.performanceMetrics.estimatedLoadTime =
            [bytes |-> v.performanceMetrics.fileSize,
             rateMBps |-> EffectiveTransferRate(v.validationSteps, volumeInfo)],
        !.performanceMetrics.randomAccessScore = RandomAccessScore(v.validationSteps)]

\* r.num / r.den > p / q for positive p, q, r.den, without forming the
\* products r.num * q and p * r.den
RatioAbove(r, p, q) ==
    \/ r.num \div p > r.den \div q
    \/ /\ r.num \div p = r.den \div q
       /\ (r.num % p) * q > (r.den % q) * p

\* lines 439-462
generateRecommendations(v) ==
    LET m == v.performanceMetrics
        t == m.estimatedLoadTime
        \* estimatedLoadTime > 10
        v1 == RecommendIf(t.rateMBps # 0 /\ t.bytes > 10485760 * t.rateMBps, v,
                          "File may benefit from higher compression or chunking optimization")
        v2 == RecommendIf(m.randomAccessScore < 70, v1,
                          "Optimize brick layout and LOD structure for better random access")
        v3 == RecommendIf(RatioAbove(m.compressionRatio, 8, 10), v2,
                          "Low compression ratio - consider wavelet compression for seismic data")
        v4 == RecommendIf(~v.azureCompatible, v3,
                          "Enable Azure-specific optimizations for best cloud performance")
    IN  IF v.isValid /\ v.azureCompatible
        THEN [v4 EXCEPT !.recommendations =
                 <<"OVDS file is optimized for Azure Energy Data Services">> \o @]
        ELSE v4

Step(v, name, res) == [v EXCEPT !.validationSteps[name] = res]

\* a verdict that looks at the first four steps only
OverallValidFirstFour(steps) ==
    /\ steps.headerStructure /\ steps.volumeInfo /\ steps.coordinateSystem
    /\ steps.compression

\* line 109: Object.values(validationSteps).every(step => step)
OverallValid(steps) == \A name \in DOMAIN steps : steps[name]

\* a verdict taken from the optimization step and the score alone
AzureVerdictWithoutValidity(v) ==
    /\ v.validationSteps.azureOptimization
    /\ v.performanceMetrics.randomAccessScore > 70

\* lines 110-112
AzureVerdict(v) ==
    /\ v.isValid
    /\ v.validationSteps.azureOptimization
    /\ v.performanceMetrics.randomAccessScore > 70

\* a catch block that lets the error escape
ValidationCatchRethrowing(v, msg) == [outcome |-> "thrown", report |-> v]

\* a catch block that goes on to compute the metrics and the final
\* recommendations
ValidationCatchFinishing(v, msg) ==
    [outcome |-> "returned",
     report |-> generateRecommendations(
                    calculatePerformanceMetrics(
                        Warn(v, "Validation error: " \o msg), DefaultVolumeInfo))]

\* lines 117-119
ValidationCatch(v, msg) ==
    [outcome |-> "returned", report |-> Warn(v, "Validation error: " \o msg)]

\* lines 105-115: what follows the seven steps
FinishValidation(v, volumeInfo) ==
    LET v1 == calculatePerformanceMetrics(v, volumeInfo)
        v2 == [v1 EXCEPT !.isValid = OverallValid(v1.validationSteps)]
        v3 == [v2 EXCEPT !.azureCompatible = AzureVerdict(v2)]
    IN  [outcome |-> "returned", report |-> generateRecommendations(v3)]

\* lines 93-103: steps 4 to 7
ValidateFromCompression(data, volumeInfo, v) ==
    LET s4 == validateCompression(data, v)
        v4 == Step(s4.v, "compression", s4.result)
        s5 == validateLODStructure(data, volumeInfo, v4)
        v5 == Step(s5.v, "lodStructure", s5.result)
        s6 == validateBrickLayout(data, volumeInfo, v5)
    IN  IF s6.thrown THEN ValidationCatch(s6.v, s6.message)
        ELSE LET v6 == Step(s6.v, "brickLayout", s6.result)
                 s7 == validateAzureOptimization(data, v6)
                 v7 == Step(s7.v, "azureOptimization", s7.result)
             IN  FinishValidation(v7, volumeInfo)

\* lines 85-91: steps 2 and 3
ValidateFromVolumeInfo(data, v) ==
    LET vi == extractVolumeInfo(data) IN
    IF vi.thrown THEN ValidationCatch(v, vi.message)
    ELSE LET s2 == validateVolumeInfo(vi.value, v)
             v2 == Step(s2.v, "volumeInfo", s2.result)
             g == extractGeometry(data)
         IN  IF g.thrown THEN ValidationCatch(v2, g.message)
             ELSE LET s3 == validateGeometry(g.value, v2) IN
                  IF s3.thrown THEN ValidationCatch(s3.v, s3.message)
                  ELSE ValidateFromCompression(
                           data, vi.value, Step(s3.v, "coordinateSystem", s3.result))

\* lines 57-122
validateOVDS(data) ==
    LET v0 == NewValidation(data)
        h == extractOVDSHeader(data)
    IN  IF h.thrown THEN ValidationCatch(v0, h.message)
        ELSE LET s1 == validateHeader(h.value, v0)
             IN  ValidateFromVolumeInfo(data, Step(s1.v, "headerStructure", s1.result))

\* a call that transfers the buffer away and leaves it detached
BufferDetached(data) == [data EXCEPT !.byteLength = 0]

\* lines 57-122: data is only read (slice, TextDecoder.decode, DataView
\* getters)
BufferAfterValidation(data) == data

----------------------------------------------------------------------------
(* OVDSValidator: a caller validates one buffer, MaxCalls times.           *)

InitValidate ==
    /\ \E ds \in [1..MaxDeviations -> Deviations] :
          vin = DeviateAll(ReferenceInput, ds)
    /\ vcalls = <<>>
    /\ pc = "idle"
    /\ file = NoFile
    /\ config = NoConfig
    /\ callback = NoCallback
    /\ progressLog = <<>>
    /\ stagesRun = <<>>
    /\ outcome = "pending"
    /\ result = NoResult
    /\ failOrigin = "none"
    /\ azureValidation = NoAzureValidation
    /\ metadata = NoMetadata
    /\ lod = NoLOD
    /\ comp = NoCompression
    /\ storage = NoStorageCall
    /\ app = NewApp

Validate ==
    /\ Len(vcalls) < MaxCalls
    /\ LET call == validateOVDS(vin)
       IN  vcalls' = Append(vcalls, [input |-> vin, outcome |-> call.outcome,
                                     report |-> call.report])
    /\ vin' = BufferAfterValidation(vin)
    /\ UNCHANGED <<convVars, encVars, storage, app>>

ValNext == Validate

SpecValidate == InitValidate /\ [][ValNext]_vars

----------------------------------------------------------------------------
(* Properties of OVDSValidator.validateOVDS.                               *)

CallNumbers == 1..Len(vcalls)

FirstFourSteps(steps) ==
    /\ steps.headerStructure /\ steps.volumeInfo /\ steps.coordinateSystem
    /\ steps.compression

AllSevenSteps(steps) ==
    /\ FirstFourSteps(steps)
    /\ steps.lodStructure /\ steps.brickLayout /\ steps.azureOptimization

\* C6 as stated: isValid is exactly the AND of the first four steps
\* (headerStructure, volumeInfo, coordinateSystem, compression), whatever the
\* LOD-structure, brick-layout and optimization steps returned.
C6_Original ==
    \A i \in CallNumbers :
        vcalls[i].report.isValid = FirstFourSteps(vcalls[i].report.validationSteps)

\* C6: isValid is exactly the AND of all seven steps, so a false
\* LOD-structure, brick-layout or optimization step makes the report
\* invalid; this also holds when a step threw, the steps not reached
\* keeping their initial false.
C6_ValidIsAllSevenSteps ==
    \A i \in CallNumbers :
        vcalls[i].report.isValid = AllSevenSteps(vcalls[i].report.validationSteps)

\* the first four steps passed and the LOD step alone made the report invalid
C6_Witness ==
    \E i \in CallNumbers :
        LET r == vcalls[i].report IN
        /\ vcalls[i].outcome = "returned"
        /\ FirstFourSteps(r.validationSteps)
        /\ ~r.validationSteps.lodStructure
        /\ r.validationSteps.brickLayout
        /\ r.validationSteps.azureOptimization
        /\ ~r.isValid

\* C7: azureCompatible is true exactly when isValid is true and the
\* optimization-hint score (markers found out of 5) is above 0.4; the
\* random-access score never changes the verdict.
C7_AzureCompatibleIsValidAndHints ==
    \A i \in CallNumbers :
        vcalls[i].report.azureCompatible
            = (/\ vcalls[i].report.isValid
               /\ Cardinality(vcalls[i].input.hints) * 10 > 4 * 5)

\* a valid report of a buffer carrying three of the five markers
C7_Witness ==
    \E i \in CallNumbers :
        /\ vcalls[i].report.azureCompatible
        /\ vcalls[i].report.isValid
        /\ Cardinality(vcalls[i].input.hints) = 3
        /\ vcalls[i].report.performanceMetrics.randomAccessScore = 100

\* the number of levels the LOD step reads
DeclaredLevels(data) == extractVolumeInfo(data).value.lodLevels

\* the levels whose offset is not strictly greater than the previous one,
\* 0 in front of the first level
UnorderedLevels(data) ==
    {i \in 1..DeclaredLevels(data) :
        LODEntryAt(data, i).offset
            <= (IF i = 1 THEN 0 ELSE LODEntryAt(data, i - 1).offset)}

\* a parseable header, and a LOD table that lies within the buffer and has
\* an offset out of order
HasCorruptedLODOffset(data) ==
    /\ data.framing = "ok"
    /\ DeclaredLevels(data) <= data.lodAvail
    /\ UnorderedLevels(data) # {}

GeometryThrows(data) ==
    validateGeometry(extractGeometry(data).value, NewValidation(data)).thrown

\* C8 as stated: a buffer with a parseable header and an offset of its LOD
\* table that is not strictly greater than the previous one is reported with
\* isValid=false and with the LOD-ordering warning among the warnings.
C8_Original ==
    \A i \in CallNumbers :
        HasCorruptedLODOffset(vcalls[i].input) =>
            /\ ~vcalls[i].report.isValid
            /\ LODOrderingWarning \in Range(vcalls[i].report.warnings)

\* C8: such a buffer is always reported with isValid=false, and the
\* warnings name the first defect validation met: a TypeError of the
\* geometry step as a "Validation error", else the zero size of a level in
\* front of the unordered one, else the LOD-ordering warning.
C8_CorruptedLODOffsetInvalidates ==
    \A i \in CallNumbers :
        LET data == vcalls[i].input
            r == vcalls[i].report
            FirstUnorderedLevel ==
                CHOOSE u \in UnorderedLevels(data) :
                    \A j \in UnorderedLevels(data) : u <= j
            \* the levels of size zero in front of the first unordered one
            EmptyLevelsBefore(d) ==
                {j \in 1..(FirstUnorderedLevel - 1) : LODEntryAt(d, j).size = 0}
        IN  HasCorruptedLODOffset(data) =>
                /\ ~r.isValid
                /\ ~r.validationSteps.lodStructure
                /\ r.warnings # <<>>
                /\ IF GeometryThrows(data)
                   THEN /\ LODOrderingWarning \notin Range(r.warnings)
                        /\ Last(r.warnings) \in
                               {"Validation error: " \o TypeErrorReading(w) :
                                    w \in {"1", "length"}}
                   ELSE IF EmptyLevelsBefore(data) # {}
                   THEN /\ LODOrderingWarning \notin Range(r.warnings)
                        /\ \E j \in EmptyLevelsBefore(data) :
                               /\ \A k \in EmptyLevelsBefore(data) : j <= k
                               /\ LODZeroSizeWarning(j - 1) \in Range(r.warnings)
                   ELSE LODOrderingWarning \in Range(r.warnings)

\* offsets 100, 50: the second level lies before the first
C8_Witness ==
    \E i \in CallNumbers :
        /\ HasCorruptedLODOffset(vcalls[i].input)
        /\ vcalls[i].input.lodTable[1].offset = 100
        /\ vcalls[i].input.lodTable[2].offset = 50
        /\ DeclaredLevels(vcalls[i].input) >= 2
        /\ ~vcalls[i].report.isValid
        /\ LODOrderingWarning \in Range(vcalls[i].report.warnings)

\* C9: validateOVDS never raises; a buffer whose header or metadata does not
\* parse, or whose LOD table runs past its end, gets a report with
\* isValid=false and a warning that names the failure.
C9_NeverRaises ==
    \A i \in CallNumbers :
        LET data == vcalls[i].input
            r == vcalls[i].report
        IN  /\ vcalls[i].outcome = "returned"
            /\ data.framing # "ok" =>
                  /\ ~r.isValid
                  /\ r.warnings = <<"Validation error: Invalid OVDS header structure">>
            /\ (data.framing = "ok" /\ ~GeometryThrows(data)
                  /\ DeclaredLevels(data) > data.lodAvail) =>
                  /\ ~r.isValid
                  /\ ~r.validationSteps.lodStructure
                  /\ "Cannot validate LOD structure" \in Range(r.warnings)

\* a buffer truncated before its LOD table, and one that holds no JSON
C9_Witness ==
    \E i \in CallNumbers :
        /\ vcalls[i].outcome = "returned"
        /\ \/ /\ vcalls[i].input.framing = "ok"
              /\ vcalls[i].input.lodAvail = 0
              /\ "Cannot validate LOD structure" \in Range(vcalls[i].report.warnings)
           \/ /\ vcalls[i].input.framing = "none"
              /\ Len(vcalls[i].report.warnings) = 1

----------------------------------------------------------------------------
(* Properties of the buffers the OVDS encoders return.                     *)

OVDSConversionSucceeded ==
    Settled /\ result.success /\ config.targetFormat = "OVDS"

\* C11: the buffer of a successful OVDS conversion begins with the JSON
\* header (format id, volume info, geometry, compression and optimization
\* fields), a newline ends that header, and the binary payload follows
\* immediately.
C11_OVDSOutputLayout ==
    OVDSConversionSucceeded =>
        LET layout == result.outputData.layout IN
        /\ Len(layout) >= 3
        /\ layout[1].kind = "json"
        /\ {"ovds_header", "volume_info", "geometry", "compression",
            "azure_optimization"} \subseteq layout[1].keys
        /\ layout[2].kind = "newline"
        /\ layout[3].kind \in {"lod_table", "lod_data", "sampled_words", "bytes"}

ValidationErrorWarnings ==
    {"Validation error: " \o m :
        m \in {"Invalid OVDS header structure", "Invalid OVDS volume information",
               "Invalid OVDS geometry information", TypeErrorReading("0"),
               TypeErrorReading("1"), TypeErrorReading("length")}}

\* C12: validateOVDS parses the header of every buffer an OVDS encoder
\* returned without a "Validation error" warning, and the position where it
\* reads the LOD offset table is where the encoder wrote that table.
\* The validator takes the text before the first "}\n" as the header (lines
\* 129 and 151 of ovdsValidator.ts).  JSON.stringify writes no newline, so
\* without a newline segment after the header the search finds nothing, or
\* finds a "}\n" among payload bytes behind text that is more than one JSON
\* value: neither parses.  The fields of the header are read only from a
\* header that parsed.  findMetadataEnd (lines 464-474) returns the end of
\* the last JSON text at the front of the buffer; the LOD table is read from
\* there.
C12_EncoderOutputValidates ==
    OVDSConversionSucceeded =>
        LET layout == result.outputData.layout
            framing == IF Len(layout) >= 2 /\ layout[1].kind = "json"
                             /\ layout[2].kind = "newline"
                       THEN "ok" ELSE "none"
            call == validateOVDS([ReferenceInput EXCEPT !.framing = framing])
        IN  /\ call.outcome = "returned"
            /\ Range(call.report.warnings) \cap ValidationErrorWarnings = {}
            /\ \E i \in 2..Len(layout) :
                   /\ layout[i].kind = "lod_table"
                   /\ \A j \in 1..(i - 1) : layout[j].kind \in {"json", "newline"}

----------------------------------------------------------------------------
(* Properties of the gate and of metadata extraction.                      *)

\* C13: for a SEG-Y buffer shorter than 3600 bytes, under every
\* ConversionConfig, metadata extraction never runs and the call settles
\* with success=false and a gate report whose headerIntegrity is false.
C13_ShortSEGYAborts ==
    (/\ pc # "idle"
     /\ config.sourceFormat = "SEG-Y"
     /\ ShorterThan(file, SEGY_TEXT_HEADER_BYTES + SEGY_BINARY_HEADER_BYTES)) =>
        /\ "extractMetadata" \notin Range(stagesRun)
        /\ Settled =>
              /\ ~result.success
              /\ result.azureValidation.present
              /\ ~result.azureValidation.validationSteps.headerIntegrity

\* C14: the gate reports isAzureCompatible=true only for a file within the
\* size limit: a file over 10000 MB is never reported compatible, whatever
\* its format and header.
C14_OverLimitNeverCompatible ==
    (azureValidation.present /\ pc # "idle" /\ ExceedsAzureLimit(file)) =>
        ~azureValidation.isAzureCompatible

\* C15: the metadata of a conversion of a SEG-Y file comes from its binary
\* header: samples is the 16-bit value at offset 20 and the sampling rate is
\* 1e6 divided by the sample interval at offset 16 (1501 and 2000 give
\* samples 1501 and rate 500).
C15_MetadataFromBinaryHeader ==
    (/\ Settled /\ result.success
     /\ config.sourceFormat = "SEG-Y"
     /\ file.samplesPerTrace > 0 /\ file.sampleInterval > 0) =>
        /\ result.metadata.samples = file.samplesPerTrace
        /\ result.metadata.samplingRate = 1000000 \div file.sampleInterval

----------------------------------------------------------------------------
(* SeismicConverter.createLODStructure, called on its own.                 *)

InitLOD ==
    /\ \E data \in SampleArrays, lodLevels \in 1..MaxPyramidLevels :
          lod = [NoLOD EXCEPT !.data = data, !.lodLevels = lodLevels]
    /\ comp = NoCompression
    /\ storage = NoStorageCall
    /\ app = NewApp
    /\ vin = ReferenceInput
    /\ vcalls = <<>>
    /\ pc = "idle"
    /\ file = NoFile
    /\ config = NoConfig
    /\ callback = NoCallback
    /\ progressLog = <<>>
    /\ stagesRun = <<>>
    /\ outcome = "pending"
    /\ result = NoResult
    /\ failOrigin = "none"
    /\ azureValidation = NoAzureValidation
    /\ metadata = NoMetadata

CreateLODStructure ==
    /\ ~lod.done
    /\ LET built == createLODStructure(lod.data, lod.lodLevels)
       IN  lod' = [lod EXCEPT !.done = TRUE, !.pyramid = built.pyramid,
                              !.table = built.table]
    /\ UNCHANGED <<convVars, valVars, comp, storage, app>>

LODNext == CreateLODStructure

SpecLOD == InitLOD /\ [][LODNext]_vars

----------------------------------------------------------------------------
(* SeismicConverter.applyOVDSCompression, called on one buffer with        *)
(* several tolerances.                                                     *)

InitCompress ==
    /\ \E byteLength \in {200 * k + e : k \in 0..MaxInputBlocks, e \in {0, 2}} :
          comp = [NoCompression EXCEPT !.byteLength = byteLength]
    /\ lod = NoLOD
    /\ vin = ReferenceInput
    /\ vcalls = <<>>
    /\ pc = "idle"
    /\ file = NoFile
    /\ config = NoConfig
    /\ callback = NoCallback
    /\ progressLog = <<>>
    /\ stagesRun = <<>>
    /\ outcome = "pending"
    /\ result = NoResult
    /\ failOrigin = "none"
    /\ azureValidation = NoAzureValidation
    /\ metadata = NoMetadata
    /\ storage = NoStorageCall
    /\ app = NewApp

ApplyOVDSCompression ==
    /\ Len(comp.calls) < MaxCalls
    /\ \E tolerance \in {0, 5, 10, 20, 1000} :
          comp' = [comp EXCEPT
                      !.calls = Append(@, applyOVDSCompression(comp.byteLength,
                                                               tolerance))]
    /\ UNCHANGED <<convVars, valVars, lod, storage, app>>

CompressNext == ApplyOVDSCompression

SpecCompress == InitCompress /\ [][CompressNext]_vars

----------------------------------------------------------------------------
(* Properties of createLODStructure.                                       *)

Levels == 1..lod.lodLevels

\* C16: for every input length and level count, the offsets of the LOD
\* table are strictly increasing from level to level and every level that
\* was written has a non-zero size.
C16_LODTableWellFormed ==
    lod.done =>
        \A level \in Levels :
            /\ lod.table[level].size > 0
            /\ level > 1 => lod.table[level].offset > lod.table[level - 1].offset

\* C17: level 0 of the pyramid has the length of the input and every
\* further level has floor(half) the length of the level before it; eight
\* levels over 2048 samples have 2048, 1024, 512, 256, 128, 64, 32, 16.
C17_PyramidHalves ==
    /\ lod.done =>
          /\ Len(lod.pyramid) = lod.lodLevels
          /\ Len(lod.pyramid[1]) = Len(lod.data)
          /\ \A level \in Levels \ {1} :
                Len(lod.pyramid[level]) = Len(lod.pyramid[level - 1]) \div 2
          /\ \A level \in Levels :
                lod.table[level].size = 4 * Len(lod.pyramid[level])
    /\ LODLevelLengths(2048, ENCODER_LOD_LEVELS)
          = <<2048, 1024, 512, 256, 128, 64, 32, 16>>

\* five samples and three levels: lengths 5, 2, 1
C17_Witness ==
    /\ lod.done
    /\ Len(lod.data) = 5
    /\ lod.lodLevels >= 3
    /\ Len(lod.pyramid[2]) = 2
    /\ Len(lod.pyramid[3]) = 1

\* sample i (from 0) of a level is the average of samples 2i and 2i+1 of
\* the level before it; numerators double from a level to the next
PairsAveraged(level) ==
    LET next == lod.pyramid[level]
        previous == lod.pyramid[level - 1]
    IN  \A i \in 0..(Len(next) - 1) :
            /\ 2 * i + 2 <= Len(previous)
            /\ LET a == previous[2 * i + 1]
                   b == previous[2 * i + 2]
               IN  IF a.nan THEN next[i + 1].nan
                   ELSE IF b.nan THEN next[i + 1] = Sample(a.num)
                   ELSE next[i + 1] = Sample(a.num + b.num)

OddLength(level) == Len(lod.pyramid[level]) % 2 = 1

\* C18 as stated: every sample of a level is the average of a pair of the
\* level before it, and the unpaired last sample of a level of odd length
\* is copied into the next level.
C18_Original ==
    lod.done =>
        \A level \in Levels \ {1} :
            \/ /\ ~OddLength(level - 1)
               /\ PairsAveraged(level)
            \/ /\ OddLength(level - 1)
               /\ Len(lod.pyramid[level]) = (Len(lod.pyramid[level - 1]) + 1) \div 2
               /\ LET last == Last(lod.pyramid[level - 1])
                  IN  Last(lod.pyramid[level])
                          = IF last.nan THEN NaN ELSE Sample(2 * last.num)

\* C18: every sample of a level is the average of samples 2i and 2i+1 of
\* the level before it (a NaN second sample counting as 0), and the
\* unpaired last sample of a level of odd length is dropped: no sample of
\* the next level is computed from it.
C18_PairsAveragedLastDropped ==
    lod.done =>
        \A level \in Levels \ {1} :
            /\ PairsAveraged(level)
            /\ OddLength(level - 1) =>
                  2 * Len(lod.pyramid[level]) = Len(lod.pyramid[level - 1]) - 1

\* a level of three samples 1, 3, 1 gave one sample, (1 + 3) / 2
C18_Witness ==
    /\ lod.done
    /\ lod.lodLevels >= 2
    /\ lod.data = <<Sample(1), Sample(3), Sample(1)>>
    /\ lod.pyramid[2] = <<Sample(4)>>

----------------------------------------------------------------------------
(* Properties of applyOVDSCompression.                                     *)

CompressionCalls == 1..Len(comp.calls)

\* C19: of two calls on one buffer that returned, the one with the smaller
\* tolerance returned at least as many bytes and recorded at least as large
\* a compressed_size.
C19_CompressionMonotone ==
    \A i, j \in CompressionCalls :
        (/\ ~comp.calls[i].thrown /\ ~comp.calls[j].thrown
         /\ comp.calls[i].tolerance < comp.calls[j].tolerance) =>
            /\ comp.calls[i].byteLength >= comp.calls[j].byteLength
            /\ comp.calls[i].compressedSize >= comp.calls[j].compressedSize

\* tolerances 0 and 0.02 on one buffer: the lossless call returned more
C19_Witness ==
    \E i, j \in CompressionCalls :
        /\ ~comp.calls[i].thrown /\ ~comp.calls[j].thrown
        /\ comp.calls[i].tolerance = 0
        /\ comp.calls[j].tolerance = 20
        /\ comp.calls[i].byteLength > comp.calls[j].byteLength

\* C20: a call with tolerance 0 that returned kept every 4-byte sample of
\* its input: each word j (from 0) of the input is copied into the output
\* by the loop of lines 428-430.
C20_ZeroToleranceLossless ==
    \A i \in CompressionCalls :
        (~comp.calls[i].thrown /\ comp.calls[i].tolerance = 0) =>
            \A j \in 0..(comp.byteLength \div BYTES_PER_SAMPLE - 1) :
                \E k \in 0..(comp.calls[i].written - 1) :
                    k * comp.calls[i].step = j

----------------------------------------------------------------------------
(* The stages of an OVDS encoding, read off the operations convert() ran.  *)

\* C21: an OVDS encoding that returned its buffer went through INIT,
\* HEADER_WRITTEN, PYRAMID_BUILT, BRICKED, COMPRESSED, ASSEMBLED and DONE in
\* this order, each once: the bricked payload was compressed before the
\* buffer was assembled, and no encoding finished without compressing.
\* The stage an operation completes: the header is encoded (line 314), the
\* pyramid built (324), the bricks laid out (327), header and bricks copied
\* into one buffer (329-338), the buffer compressed (263).
C21_EncodingStagesInOrder ==
    LET EncodingStage(op) ==
            CASE op = "TextEncoder.encode" -> "HEADER_WRITTEN"
              [] op = "createLODStructure" -> "PYRAMID_BUILT"
              [] op = "applyBrickStructure" -> "BRICKED"
              [] op = "createOVDSData" -> "ASSEMBLED"
              [] op = "applyOVDSCompression" -> "COMPRESSED"
              [] OTHER -> "NONE"
        IsStage(op) == EncodingStage(op) # "NONE"
        encoderOps == SelectSeq(stagesRun, IsStage)
        EncodingTrace ==
            <<"INIT">> \o [i \in 1..Len(encoderOps) |-> EncodingStage(encoderOps[i])]
                       \o <<"DONE">>
    IN  (Settled /\ result.success /\ config.targetFormat = "OVDS") =>
            EncodingTrace = <<"INIT", "HEADER_WRITTEN", "PYRAMID_BUILT", "BRICKED",
                              "COMPRESSED", "ASSEMBLED", "DONE">>

----------------------------------------------------------------------------
(* Properties of the volume-info and geometry steps of the validator, on   *)
(* the calls whose buffer has a header that parses (lines 85-91).          *)

\* C22: the volume-info step of a report is true exactly when the volume
\* has dimensionality 3, a brick size of three dimensions each of which is
\* 32, 64 or 128, and at least one LOD level.
C22_VolumeInfoStep ==
    \A i \in {k \in CallNumbers : HeaderParses(vcalls[k].input)} :
        LET volumeInfo == extractVolumeInfo(vcalls[i].input).value
        IN  vcalls[i].report.validationSteps.volumeInfo
                = (/\ volumeInfo.dimensionality = 3
                   /\ Len(volumeInfo.brickSize) = 3
                   /\ \A k \in 1..Len(volumeInfo.brickSize) :
                          volumeInfo.brickSize[k] \in {32, 64, 128}
                   /\ volumeInfo.lodLevels >= 1)

\* C23: the geometry step of a report is true exactly when the inline,
\* crossline and sample ranges each have a first endpoint below the second
\* and the transformation matrix has 16 entries; a range with equal endpoints
\* makes the step false.
C23_GeometryStep ==
    \A i \in {k \in CallNumbers : HeaderParses(vcalls[k].input)} :
        LET geometry == extractGeometry(vcalls[i].input).value
            Increasing(r) == Len(r) = 2 /\ r[1] < r[2]
        IN  vcalls[i].report.validationSteps.coordinateSystem
                = (/\ Increasing(geometry.inlineRange)
                   /\ Increasing(geometry.crosslineRange)
                   /\ Increasing(geometry.sampleRange)
                   /\ geometry.ijkLength = 16)

----------------------------------------------------------------------------
(* Properties of the verdicts of a validation report.                      *)

\* C24: in every report azureCompatible equals isValid: a report whose
\* seven steps are all true has a random-access score of 1.0 and both flags
\* true, and a report with a false step, or one cut short by an exception,
\* has both flags false.
C24_AzureCompatibleEqualsValid ==
    \A i \in CallNumbers :
        LET r == vcalls[i].report IN
        /\ r.azureCompatible = r.isValid
        /\ AllSevenSteps(r.validationSteps) =>
              /\ r.performanceMetrics.randomAccessScore = 100
              /\ r.isValid /\ r.azureCompatible
        /\ (\/ ~AllSevenSteps(r.validationSteps)
            \/ Range(r.warnings) \cap ValidationErrorWarnings # {}) =>
              /\ ~r.isValid /\ ~r.azureCompatible

\* the optimization step passed and the score is above 0.7, yet the report
\* is neither valid nor compatible because the header step failed
C24_Witness ==
    \E i \in CallNumbers :
        LET r == vcalls[i].report IN
        /\ r.validationSteps.azureOptimization
        /\ r.performanceMetrics.randomAccessScore > 70
        /\ ~r.validationSteps.headerStructure
        /\ ~r.isValid
        /\ ~r.azureCompatible

\* C25: when the header, volume-info or geometry extraction fails on a
\* buffer whose JSON header does not parse, the report has isValid and
\* azureCompatible false, every step from the failing one onward false, the
\* initial 0 as estimatedLoadTime and randomAccessScore, exactly one
\* "Validation error" warning, naming that extraction, and none of the final
\* recommendations.
\* StepOrder is the order of lines 81-103; failing is the step whose
\* extraction throws (1 header, 2 volume information, 0 none), with the
\* messages of lines 142, 163, 181; FinalRecommendations is what
\* generateRecommendations (439-462) can add.
C25_ExtractionFailureStopsValidation ==
    LET StepOrder == <<"headerStructure", "volumeInfo", "coordinateSystem",
                       "compression", "lodStructure", "brickLayout",
                       "azureOptimization">>
        ExtractionErrors ==
            <<"Invalid OVDS header structure", "Invalid OVDS volume information",
              "Invalid OVDS geometry information">>
        FinalRecommendations ==
            {"File may benefit from higher compression or chunking optimization",
             "Optimize brick layout and LOD structure for better random access",
             "Low compression ratio - consider wavelet compression for seismic data",
             "Enable Azure-specific optimizations for best cloud performance",
             "OVDS file is optimized for Azure Energy Data Services"}
    IN  \A i \in CallNumbers :
            LET data == vcalls[i].input
                r == vcalls[i].report
                failing == IF ~HeaderParses(data) THEN 1
                           ELSE IF ~MetadataParses(data) THEN 2
                           ELSE 0
            IN  failing # 0 =>
                    /\ vcalls[i].outcome = "returned"
                    /\ ~r.isValid
                    /\ ~r.azureCompatible
                    /\ \A k \in failing..Len(StepOrder) :
                           ~r.validationSteps[StepOrder[k]]
                    /\ r.performanceMetrics.estimatedLoadTime
                           = NewValidation(data).performanceMetrics.estimatedLoadTime
                    /\ r.performanceMetrics.randomAccessScore = 0
                    /\ Cardinality({k \in 1..Len(r.warnings) :
                                        r.warnings[k] \in ValidationErrorWarnings}) = 1
                    /\ Last(r.warnings)
                           = "Validation error: " \o ExtractionErrors[failing]
                    /\ Range(r.recommendations) \cap FinalRecommendations = {}

\* a buffer whose header text is cut off by "}\n" but is not JSON
C25_Witness ==
    \E i \in CallNumbers :
        LET r == vcalls[i].report IN
        /\ vcalls[i].input.framing = "badjson"
        /\ vcalls[i].outcome = "returned"
        /\ r.warnings = <<"Validation error: Invalid OVDS header structure">>
        /\ r.recommendations = <<>>
        /\ \A name \in DOMAIN r.validationSteps : ~r.validationSteps[name]

----------------------------------------------------------------------------
(* Properties of the Azure paths of SeismicConverter.convert.              *)

C27_AzurePathSucceeds ==
    (/\ Settled
     /\ config.azureCompatible
     /\ config.sourceFormat = "SEG-Y"
     /\ config.targetFormat \in {"OVDS", "ZGY"}
     /\ azureValidation.present
     /\ azureValidation.isAzureCompatible
     /\ file.size % 4 = 0
     /\ file.readError = "none"
     /\ callback.throwsAt = 0) =>
        /\ result.success
        /\ result.outputData.present
        /\ result.metadata.format = config.targetFormat

----------------------------------------------------------------------------
(* Properties of convert() on inputs that are not a whole number of        *)
(* 32-bit samples.                                                         *)

----------------------------------------------------------------------------
(* StorageManager: a caller saves one converted buffer.                    *)

InitStorage ==
    /\ storage = NoStorageCall
    /\ app = NewApp
    /\ lod = NoLOD
    /\ comp = NoCompression
    /\ vin = ReferenceInput
    /\ vcalls = <<>>
    /\ pc = "idle"
    /\ file = NoFile
    /\ config = NoConfig
    /\ callback = NoCallback
    /\ progressLog = <<>>
    /\ stagesRun = <<>>
    /\ outcome = "pending"
    /\ result = NoResult
    /\ failOrigin = "none"
    /\ azureValidation = NoAzureValidation
    /\ metadata = NoMetadata

\* a caller awaits saveConvertedData(data, fileName, config)
SaveConvertedData ==
    /\ storage.pc = "idle"
    /\ \E c \in StorageConfigs, env \in StorageEnvironments :
          LET call == saveConvertedData("survey.vds", c, env)
          IN  storage' = [pc |-> "done", fileName |-> "survey.vds", config |-> c,
                          env |-> env, outcome |-> call.outcome,
                          result |-> call.result]
    /\ UNCHANGED <<convVars, valVars, encVars, app>>

\* the caller has the result
StorageDone ==
    /\ storage.pc = "done"
    /\ storage' = NoStorageCall
    /\ UNCHANGED <<convVars, valVars, encVars, app>>

StorageNext == SaveConvertedData \/ StorageDone

SpecStorage == InitStorage /\ [][StorageNext]_vars

\* C29: saveConvertedData never throws: it returns a result whose
\* uploadSuccess is true exactly when every store required by config.type
\* succeeded and whose uploadError is set exactly when uploadSuccess is
\* false; for type "both", when the Azure save fails after the local save,
\* the result has localPath, no azureUrl and uploadSuccess=false.
\* The local save succeeds when the download goes through; the Azure save
\* when the configuration names an account and the upload goes through; a
\* type outside the declared union has no store that could succeed.
C29_StorageFailureIsAValue ==
    LET localSaved == storage.env.local = "ok"
        azureSaved == /\ storage.config.azure.present
                      /\ storage.config.azure.accountName # ""
                      /\ (storage.config.azure.sasToken # ""
                              => storage.env.upload = "ok")
        requiredStoresSucceeded ==
            CASE storage.config.type = "local" -> localSaved
              [] storage.config.type = "azure" -> azureSaved
              [] storage.config.type = "both" -> localSaved /\ azureSaved
              [] OTHER -> FALSE
    IN  storage.pc = "done" =>
            /\ storage.outcome = "returned"
            /\ storage.result.uploadSuccess = requiredStoresSucceeded
            /\ (storage.result.uploadError # "") = ~storage.result.uploadSuccess
            /\ (storage.config.type = "both" /\ localSaved /\ ~azureSaved) =>
                  /\ storage.result.localPath # ""
                  /\ storage.result.azureUrl = ""
                  /\ ~storage.result.uploadSuccess

\* type "both": the file was saved locally and the PUT was answered 403
C29_Witness ==
    /\ storage.pc = "done"
    /\ storage.config.type = "both"
    /\ storage.outcome = "returned"
    /\ storage.result.localPath = "/data/survey.vds"
    /\ storage.result.azureUrl = ""
    /\ ~storage.result.uploadSuccess
    /\ storage.result.uploadError = "Azure upload failed: HTTP 403: Forbidden"

----------------------------------------------------------------------------
(* App: the user selects a file and a target format and converts, at most  *)
(* MaxConversions times.                                                   *)

InitApp ==
    /\ app = NewApp
    /\ storage = NoStorageCall
    /\ lod = NoLOD
    /\ comp = NoCompression
    /\ vin = ReferenceInput
    /\ vcalls = <<>>
    /\ pc = "idle"
    /\ file = NoFile
    /\ config = NoConfig
    /\ callback = NoCallback
    /\ progressLog = <<>>
    /\ stagesRun = <<>>
    /\ outcome = "pending"
    /\ result = NoResult
    /\ failOrigin = "none"
    /\ azureValidation = NoAzureValidation
    /\ metadata = NoMetadata

\* lines 48-107: handleFileSelect, for a file named survey.sgy
HandleFileSelect ==
    /\ app' = [app EXCEPT !.currentFile = [present |-> TRUE, name |-> "survey.sgy",
                                           format |-> formatMap("sgy")]]
    /\ UNCHANGED <<convVars, valVars, encVars, storage>>

\* the format selector (setTargetFormat): the user switches to CSV, away
\* from the default
SetTargetFormat ==
    /\ app' = [app EXCEPT !.targetFormat = "CSV"]
    /\ UNCHANGED <<convVars, valVars, encVars, storage>>

\* lines 175-189 and 109-128: the convert button, enabled while no job is
\* processing (line 292); handleConvert creates the job (178-186) and
\* simulateConversion runs up to its await of convert()
HandleConvert ==
    /\ ~app.converting
    /\ app.currentFile.present
    /\ app.targetFormat # ""
    /\ app.now < MaxConversions
    /\ LET job == [id |-> app.now + 1, fileName |-> app.currentFile.name,
                   sourceFormat |-> app.currentFile.format,
                   targetFormat |-> app.targetFormat, status |-> "processing",
                   progress |-> 0, timestamp |-> app.now + 1, error |-> "",
                   downloadUrl |-> FALSE]
       IN  app' = [app EXCEPT !.now = app.now + 1, !.job = job, !.currentJob = job,
                              !.converting = TRUE, !.result = NoResult]
    /\ UNCHANGED <<convVars, valVars, encVars, storage>>

\* lines 125-127: the progress callback handed to convert(), called with
\* 5 or 100
ReportProgress ==
    /\ app.converting
    /\ \E progress \in {5, 100} :
          /\ progress > app.currentJob.progress
          /\ app' = [app EXCEPT !.currentJob =
                         IF @.status = "none" THEN @
                         ELSE [@ EXCEPT !.progress = progress]]
    /\ UNCHANGED <<convVars, valVars, encVars, storage>>

\* lines 130-164: convert() resolved; simulateConversion runs to its end.
\* convert() was given the configuration of lines 113-120 and resolves to a
\* buffer, to the rejection of the gate, or to an error caught in a stage.
ConversionSettles ==
    /\ app.converting
    /\ LET job == app.job
           azureCompatible == \/ job.targetFormat \in {"ZGY", "OVDS"}
                              \/ job.sourceFormat = "SEG-Y"
           results ==
               {Success(Output(job.targetFormat), NoMetadata, NoAzureValidation),
                ConvertCatch(RangeErrorNotMultipleOf4).result}
                   \cup (IF azureCompatible THEN {GateRejection(NoAzureValidation)}
                         ELSE {})
           completedJob == [job EXCEPT !.status = "completed", !.progress = 100,
                                       !.downloadUrl = TRUE]
           ErrorJob(res) ==
               [job EXCEPT !.status = "error",
                           !.error = IF res.error.present /\ res.error.message # ""
                                     THEN res.error.message
                                     ELSE "Unknown conversion error"]
       IN  \E res \in results :
              IF res.success /\ res.outputData.present
              THEN app' = [app EXCEPT
                              !.result = res, !.converting = FALSE,
                              !.currentJob = completedJob,
                              !.conversionHistory = HistoryUpdate(@, completedJob)]
              ELSE app' = [app EXCEPT !.result = res, !.converting = FALSE,
                                      !.currentJob = ErrorJob(res)]
    /\ UNCHANGED <<convVars, valVars, encVars, storage>>

AppNext ==
    \/ HandleFileSelect
    \/ SetTargetFormat
    \/ HandleConvert
    \/ ReportProgress
    \/ ConversionSettles

SpecApp == InitApp /\ [][AppNext]_vars

\* C30: the conversion history always holds at most 10 jobs, newest first,
\* all with status "completed"; a step of the App changes the history only
\* when a conversion returns success with output data, and then puts the
\* completed job in front of the 9 newest entries; a conversion that fails
\* leaves the history as it was.
C30_HistoryOfCompletedJobs ==
    [][LET before == app.conversionHistory
           after == app'.conversionHistory
       IN  /\ Len(after) <= 10
           /\ \A i \in 1..Len(after) : after[i].status = "completed"
           /\ \A i, j \in 1..Len(after) :
                  i < j => after[i].timestamp > after[j].timestamp
           /\ IF app.converting /\ ~app'.converting
              THEN IF app'.result.success /\ app'.result.outputData.present
                   THEN /\ after # before
                        /\ Head(after) = app'.currentJob
                        /\ app'.currentJob.status = "completed"
                        /\ app'.currentJob.id = app.job.id
                        /\ \A k \in 2..Len(after) : after[k] = before[k - 1]
                        /\ Len(after) = IF Len(before) <= 9 THEN Len(before) + 1
                                        ELSE 10
                   ELSE /\ after = before
                        /\ app'.currentJob.status = "error"
              ELSE after = before]_vars

\* the history is full, its oldest job has been dropped, and the last
\* conversion failed without touching it
C30_Witness ==
    /\ Len(app.conversionHistory) = 10
    /\ app.conversionHistory[10].id > 1
    /\ ~app.converting
    /\ ~app.result.success
    /\ app.currentJob.status = "error"
    /\ app.currentJob.id > app.conversionHistory[1].id

====
